---------------------------- MODULE Spec2Model ----------------------------
(***************************************************************************)
(* get_problems.py: the problem registry of the benchmark and its export   *)
(* to problems.json, problems.csv and problems.txt, plus the console       *)
(* summary.                                                                *)
(*                                                                         *)
(* Text is kept as sequences of pieces: a string is cut at the characters  *)
(* the encoders treat specially (Pieces), a write or a print is the        *)
(* sequence of the literal parts and interpolated values of its f-string,  *)
(* and a file is the sequence of the writes made to it.  The box-drawing   *)
(* glyphs of the text report are written |- and +- here.                   *)
(***************************************************************************)
EXTENDS Integers, Sequences, FiniteSets, TLC

\* Bounds of the model.
MaxRuns == 2        \* invocations of the script over the same directory
NumSeeds == 2       \* string hash seeds a process may start with
MaxFailPoint == 1   \* writes that can have reached the file when a write fails
MaxLen == 2         \* records in a caller-supplied list
MaxCalls == 2       \* calls a caller makes

VARIABLES
  PROBLEMS,    \* the registry list (module global)
  TASK_TYPES,  \* the task type table (module global)
  pc,          \* where the process is
  idx,         \* position of the defaulting loop in PROBLEMS
  hashseed,    \* the string hash seed of the process (fixes set iteration order)
  files,       \* the working directory: file name -> [exists, data]
  stdout,      \* what has been printed, one entry per print call
  run,         \* which invocation of the script this is
  tpc,         \* per exporter: how far it is, when the exporters are interleaved
  ncalls,      \* calls made so far by a caller of the exporters
  lastrun      \* how the previous invocation ended and the files it left

vars == <<PROBLEMS, TASK_TYPES, pc, idx, hashseed, files, stdout, run, tpc, ncalls, lastrun>>

\* The task type table (an insertion-ordered dict, kept as key/value pairs).
TaskTypesLiteral ==
  << [key |-> "detection",
      value |-> [description |-> "Detect anomalies in a deployed service",
                 expected_solution_format |-> "str: \"Yes\" or \"No\"",
                 metric |-> "TTD (Time To Detect)"]],
     [key |-> "localization",
      value |-> [description |-> "Identify the service(s) where the root cause of the fault lies",
                 expected_solution_format |-> "list[str]: list of faulty service names",
                 metric |-> "TTL (Time To Localize)"]],
     [key |-> "analysis",
      value |-> [description |-> "Root cause analysis - identify system level and fault type",
                 expected_solution_format |-> "dict: {\"system_level\": \"...\", \"fault_type\": \"...\"}",
                 metric |-> "TTA (Time To Analyze)",
                 system_levels |-> <<"Hardware", "Operating System", "Virtualization", "Application">>,
                 fault_types |-> <<"Misconfiguration", "Code Defect", "Authentication Issue", "Network/Storage Issue", "Operation Error", "Dependency Problem">>]],
     [key |-> "mitigation",
      value |-> [description |-> "Mitigate/fix the detected anomaly",
                 expected_solution_format |-> "None (verified by system status check)",
                 metric |-> "TTM (Time To Mitigate)"]] >>

\* The problem registry as the literal declares it, in declaration order.
RegistryLiteral ==
  <<
     \* lines 39-51
     [id |-> "k8s_target_port-misconfig-detection-1",
      task |-> "detection",
      app |-> "Social Network",
      namespace |-> "social-network",
      faulty_service |-> "user-service",
      fault_type |-> "misconfig_k8s",
      fault_description |-> "K8s service target port misconfiguration",
      workload |-> "socialNetwork/wrk2/scripts/social-network/compose-post.lua",
      expected_solution |-> "Yes",
      system_level |-> "Virtualization",
      fault_category |-> "Misconfiguration"],
     \* lines 52-64
     [id |-> "k8s_target_port-misconfig-localization-1",
      task |-> "localization",
      app |-> "Social Network",
      namespace |-> "social-network",
      faulty_service |-> "user-service",
      fault_type |-> "misconfig_k8s",
      fault_description |-> "K8s service target port misconfiguration",
      workload |-> "socialNetwork/wrk2/scripts/social-network/compose-post.lua",
      expected_solution |-> "[\"user-service\"]",
      system_level |-> "Virtualization",
      fault_category |-> "Misconfiguration"],
     \* lines 65-77
     [id |-> "k8s_target_port-misconfig-analysis-1",
      task |-> "analysis",
      app |-> "Social Network",
      namespace |-> "social-network",
      faulty_service |-> "user-service",
      fault_type |-> "misconfig_k8s",
      fault_description |-> "K8s service target port misconfiguration",
      workload |-> "socialNetwork/wrk2/scripts/social-network/compose-post.lua",
      expected_solution |-> "{\"system_level\": \"Virtualization\", \"fault_type\": \"Misconfiguration\"}",
      system_level |-> "Virtualization",
      fault_category |-> "Misconfiguration"],
     \* lines 78-90
     [id |-> "k8s_target_port-misconfig-mitigation-1",
      task |-> "mitigation",
      app |-> "Social Network",
      namespace |-> "social-network",
      faulty_service |-> "user-service",
      fault_type |-> "misconfig_k8s",
      fault_description |-> "K8s service target port misconfiguration",
      workload |-> "socialNetwork/wrk2/scripts/social-network/compose-post.lua",
      expected_solution |-> "Reset target port to 9090, all pods Running",
      system_level |-> "Virtualization",
      fault_category |-> "Misconfiguration"],
     \* lines 92-104
     [id |-> "k8s_target_port-misconfig-detection-2",
      task |-> "detection",
      app |-> "Social Network",
      namespace |-> "social-network",
      faulty_service |-> "text-service",
      fault_type |-> "misconfig_k8s",
      fault_description |-> "K8s service target port misconfiguration",
      workload |-> "socialNetwork/wrk2/scripts/social-network/compose-post.lua",
      expected_solution |-> "Yes",
      system_level |-> "Virtualization",
      fault_category |-> "Misconfiguration"],
     \* lines 105-117
     [id |-> "k8s_target_port-misconfig-localization-2",
      task |-> "localization",
      app |-> "Social Network",
      namespace |-> "social-network",
      faulty_service |-> "text-service",
      fault_type |-> "misconfig_k8s",
      fault_description |-> "K8s service target port misconfiguration",
      workload |-> "socialNetwork/wrk2/scripts/social-network/compose-post.lua",
      expected_solution |-> "[\"text-service\"]",
      system_level |-> "Virtualization",
      fault_category |-> "Misconfiguration"],
     \* lines 118-130
     [id |-> "k8s_target_port-misconfig-analysis-2",
      task |-> "analysis",
      app |-> "Social Network",
      namespace |-> "social-network",
      faulty_service |-> "text-service",
      fault_type |-> "misconfig_k8s",
      fault_description |-> "K8s service target port misconfiguration",
      workload |-> "socialNetwork/wrk2/scripts/social-network/compose-post.lua",
      expected_solution |-> "{\"system_level\": \"Virtualization\", \"fault_type\": \"Misconfiguration\"}",
      system_level |-> "Virtualization",
      fault_category |-> "Misconfiguration"],
     \* lines 131-143
     [id |-> "k8s_target_port-misconfig-mitigation-2",
      task |-> "mitigation",
      app |-> "Social Network",
      namespace |-> "social-network",
      faulty_service |-> "text-service",
      fault_type |-> "misconfig_k8s",
      fault_description |-> "K8s service target port misconfiguration",
      workload |-> "socialNetwork/wrk2/scripts/social-network/compose-post.lua",
      expected_solution |-> "Reset target port to 9090, all pods Running",
      system_level |-> "Virtualization",
      fault_category |-> "Misconfiguration"],
     \* lines 145-157
     [id |-> "k8s_target_port-misconfig-detection-3",
      task |-> "detection",
      app |-> "Social Network",
      namespace |-> "social-network",
      faulty_service |-> "post-storage-service",
      fault_type |-> "misconfig_k8s",
      fault_description |-> "K8s service target port misconfiguration",
      workload |-> "socialNetwork/wrk2/scripts/social-network/compose-post.lua",
      expected_solution |-> "Yes",
      system_level |-> "Virtualization",
      fault_category |-> "Misconfiguration"],
     \* lines 158-170
     [id |-> "k8s_target_port-misconfig-localization-3",
      task |-> "localization",
      app |-> "Social Network",
      namespace |-> "social-network",
      faulty_service |-> "post-storage-service",
      fault_type |-> "misconfig_k8s",
      fault_description |-> "K8s service target port misconfiguration",
      workload |-> "socialNetwork/wrk2/scripts/social-network/compose-post.lua",
      expected_solution |-> "[\"post-storage-service\"]",
      system_level |-> "Virtualization",
      fault_category |-> "Misconfiguration"],
     \* lines 171-183
     [id |-> "k8s_target_port-misconfig-analysis-3",
      task |-> "analysis",
      app |-> "Social Network",
      namespace |-> "social-network",
      faulty_service |-> "post-storage-service",
      fault_type |-> "misconfig_k8s",
      fault_description |-> "K8s service target port misconfiguration",
      workload |-> "socialNetwork/wrk2/scripts/social-network/compose-post.lua",
      expected_solution |-> "{\"system_level\": \"Virtualization\", \"fault_type\": \"Misconfiguration\"}",
      system_level |-> "Virtualization",
      fault_category |-> "Misconfiguration"],
     \* lines 184-196
     [id |-> "k8s_target_port-misconfig-mitigation-3",
      task |-> "mitigation",
      app |-> "Social Network",
      namespace |-> "social-network",
      faulty_service |-> "post-storage-service",
      fault_type |-> "misconfig_k8s",
      fault_description |-> "K8s service target port misconfiguration",
      workload |-> "socialNetwork/wrk2/scripts/social-network/compose-post.lua",
      expected_solution |-> "Reset target port to 9090, all pods Running",
      system_level |-> "Virtualization",
      fault_category |-> "Misconfiguration"],
     \* lines 201-213
     [id |-> "auth_miss_mongodb-detection-1",
      task |-> "detection",
      app |-> "Hotel Reservation",
      namespace |-> "hotel-reserv",
      faulty_service |-> "mongodb-rate",
      fault_type |-> "auth_missing",
      fault_description |-> "MongoDB authentication credentials missing",
      workload |-> "hotelReservation/wrk2/scripts/hotel-reservation/mixed-workload_type_1.lua",
      expected_solution |-> "Yes",
      system_level |-> "Application",
      fault_category |-> "Authentication Issue"],
     \* lines 214-226
     [id |-> "auth_miss_mongodb-localization-1",
      task |-> "localization",
      app |-> "Hotel Reservation",
      namespace |-> "hotel-reserv",
      faulty_service |-> "mongodb-rate",
      fault_type |-> "auth_missing",
      fault_description |-> "MongoDB authentication credentials missing",
      workload |-> "hotelReservation/wrk2/scripts/hotel-reservation/mixed-workload_type_1.lua",
      expected_solution |-> "[\"mongodb-rate\"]",
      system_level |-> "Application",
      fault_category |-> "Authentication Issue"],
     \* lines 227-239
     [id |-> "auth_miss_mongodb-analysis-1",
      task |-> "analysis",
      app |-> "Hotel Reservation",
      namespace |-> "hotel-reserv",
      faulty_service |-> "mongodb-rate",
      fault_type |-> "auth_missing",
      fault_description |-> "MongoDB authentication credentials missing",
      workload |-> "hotelReservation/wrk2/scripts/hotel-reservation/mixed-workload_type_1.lua",
      expected_solution |-> "{\"system_level\": \"Application\", \"fault_type\": \"Authentication Issue\"}",
      system_level |-> "Application",
      fault_category |-> "Authentication Issue"],
     \* lines 240-252
     [id |-> "auth_miss_mongodb-mitigation-1",
      task |-> "mitigation",
      app |-> "Hotel Reservation",
      namespace |-> "hotel-reserv",
      faulty_service |-> "mongodb-rate",
      fault_type |-> "auth_missing",
      fault_description |-> "MongoDB authentication credentials missing",
      workload |-> "hotelReservation/wrk2/scripts/hotel-reservation/mixed-workload_type_1.lua",
      expected_solution |-> "Restore MongoDB authentication, all pods Running",
      system_level |-> "Application",
      fault_category |-> "Authentication Issue"],
     \* lines 257-269
     [id |-> "revoke_auth_mongodb-detection-1",
      task |-> "detection",
      app |-> "Hotel Reservation",
      namespace |-> "hotel-reserv",
      faulty_service |-> "mongodb-geo",
      fault_type |-> "auth_revoke",
      fault_description |-> "MongoDB authentication revoked",
      workload |-> "hotelReservation/wrk2/scripts/hotel-reservation/mixed-workload_type_1.lua",
      expected_solution |-> "Yes",
      system_level |-> "Application",
      fault_category |-> "Authentication Issue"],
     \* lines 270-282
     [id |-> "revoke_auth_mongodb-localization-1",
      task |-> "localization",
      app |-> "Hotel Reservation",
      namespace |-> "hotel-reserv",
      faulty_service |-> "mongodb-geo",
      fault_type |-> "auth_revoke",
      fault_description |-> "MongoDB authentication revoked",
      workload |-> "hotelReservation/wrk2/scripts/hotel-reservation/mixed-workload_type_1.lua",
      expected_solution |-> "[\"mongodb-geo\"]",
      system_level |-> "Application",
      fault_category |-> "Authentication Issue"],
     \* lines 283-295
     [id |-> "revoke_auth_mongodb-analysis-1",
      task |-> "analysis",
      app |-> "Hotel Reservation",
      namespace |-> "hotel-reserv",
      faulty_service |-> "mongodb-geo",
      fault_type |-> "auth_revoke",
      fault_description |-> "MongoDB authentication revoked",
      workload |-> "hotelReservation/wrk2/scripts/hotel-reservation/mixed-workload_type_1.lua",
      expected_solution |-> "{\"system_level\": \"Application\", \"fault_type\": \"Authentication Issue\"}",
      system_level |-> "Application",
      fault_category |-> "Authentication Issue"],
     \* lines 296-308
     [id |-> "revoke_auth_mongodb-mitigation-1",
      task |-> "mitigation",
      app |-> "Hotel Reservation",
      namespace |-> "hotel-reserv",
      faulty_service |-> "mongodb-geo",
      fault_type |-> "auth_revoke",
      fault_description |-> "MongoDB authentication revoked",
      workload |-> "hotelReservation/wrk2/scripts/hotel-reservation/mixed-workload_type_1.lua",
      expected_solution |-> "Restore MongoDB authentication, all pods Running",
      system_level |-> "Application",
      fault_category |-> "Authentication Issue"],
     \* lines 310-322
     [id |-> "revoke_auth_mongodb-detection-2",
      task |-> "detection",
      app |-> "Hotel Reservation",
      namespace |-> "hotel-reserv",
      faulty_service |-> "mongodb-rate",
      fault_type |-> "auth_revoke",
      fault_description |-> "MongoDB authentication revoked",
      workload |-> "hotelReservation/wrk2/scripts/hotel-reservation/mixed-workload_type_1.lua",
      expected_solution |-> "Yes",
      system_level |-> "Application",
      fault_category |-> "Authentication Issue"],
     \* lines 323-335
     [id |-> "revoke_auth_mongodb-localization-2",
      task |-> "localization",
      app |-> "Hotel Reservation",
      namespace |-> "hotel-reserv",
      faulty_service |-> "mongodb-rate",
      fault_type |-> "auth_revoke",
      fault_description |-> "MongoDB authentication revoked",
      workload |-> "hotelReservation/wrk2/scripts/hotel-reservation/mixed-workload_type_1.lua",
      expected_solution |-> "[\"mongodb-rate\"]",
      system_level |-> "Application",
      fault_category |-> "Authentication Issue"],
     \* lines 336-348
     [id |-> "revoke_auth_mongodb-analysis-2",
      task |-> "analysis",
      app |-> "Hotel Reservation",
      namespace |-> "hotel-reserv",
      faulty_service |-> "mongodb-rate",
      fault_type |-> "auth_revoke",
      fault_description |-> "MongoDB authentication revoked",
      workload |-> "hotelReservation/wrk2/scripts/hotel-reservation/mixed-workload_type_1.lua",
      expected_solution |-> "{\"system_level\": \"Application\", \"fault_type\": \"Authentication Issue\"}",
      system_level |-> "Application",
      fault_category |-> "Authentication Issue"],
     \* lines 349-361
     [id |-> "revoke_auth_mongodb-mitigation-2",
      task |-> "mitigation",
      app |-> "Hotel Reservation",
      namespace |-> "hotel-reserv",
      faulty_service |-> "mongodb-rate",
      fault_type |-> "auth_revoke",
      fault_description |-> "MongoDB authentication revoked",
      workload |-> "hotelReservation/wrk2/scripts/hotel-reservation/mixed-workload_type_1.lua",
      expected_solution |-> "Restore MongoDB authentication, all pods Running",
      system_level |-> "Application",
      fault_category |-> "Authentication Issue"],
     \* lines 366-378
     [id |-> "user_unregistered_mongodb-detection-1",
      task |-> "detection",
      app |-> "Hotel Reservation",
      namespace |-> "hotel-reserv",
      faulty_service |-> "mongodb-geo",
      fault_type |-> "user_unregistered",
      fault_description |-> "MongoDB user unregistered/deleted",
      workload |-> "hotelReservation/wrk2/scripts/hotel-reservation/mixed-workload_type_1.lua",
      expected_solution |-> "Yes",
      system_level |-> "Application",
      fault_category |-> "Authentication Issue"],
     \* lines 379-391
     [id |-> "user_unregistered_mongodb-localization-1",
      task |-> "localization",
      app |-> "Hotel Reservation",
      namespace |-> "hotel-reserv",
      faulty_service |-> "mongodb-geo",
      fault_type |-> "user_unregistered",
      fault_description |-> "MongoDB user unregistered/deleted",
      workload |-> "hotelReservation/wrk2/scripts/hotel-reservation/mixed-workload_type_1.lua",
      expected_solution |-> "[\"mongodb-geo\"]",
      system_level |-> "Application",
      fault_category |-> "Authentication Issue"],
     \* lines 392-404
     [id |-> "user_unregistered_mongodb-analysis-1",
      task |-> "analysis",
      app |-> "Hotel Reservation",
      namespace |-> "hotel-reserv",
      faulty_service |-> "mongodb-geo",
      fault_type |-> "user_unregistered",
      fault_description |-> "MongoDB user unregistered/deleted",
      workload |-> "hotelReservation/wrk2/scripts/hotel-reservation/mixed-workload_type_1.lua",
      expected_solution |-> "{\"system_level\": \"Application\", \"fault_type\": \"Authentication Issue\"}",
      system_level |-> "Application",
      fault_category |-> "Authentication Issue"],
     \* lines 405-417
     [id |-> "user_unregistered_mongodb-mitigation-1",
      task |-> "mitigation",
      app |-> "Hotel Reservation",
      namespace |-> "hotel-reserv",
      faulty_service |-> "mongodb-geo",
      fault_type |-> "user_unregistered",
      fault_description |-> "MongoDB user unregistered/deleted",
      workload |-> "hotelReservation/wrk2/scripts/hotel-reservation/mixed-workload_type_1.lua",
      expected_solution |-> "Re-register MongoDB user, all pods Running",
      system_level |-> "Application",
      fault_category |-> "Authentication Issue"],
     \* lines 419-431
     [id |-> "user_unregistered_mongodb-detection-2",
      task |-> "detection",
      app |-> "Hotel Reservation",
      namespace |-> "hotel-reserv",
      faulty_service |-> "mongodb-rate",
      fault_type |-> "user_unregistered",
      fault_description |-> "MongoDB user unregistered/deleted",
      workload |-> "hotelReservation/wrk2/scripts/hotel-reservation/mixed-workload_type_1.lua",
      expected_solution |-> "Yes",
      system_level |-> "Application",
      fault_category |-> "Authentication Issue"],
     \* lines 432-444
     [id |-> "user_unregistered_mongodb-localization-2",
      task |-> "localization",
      app |-> "Hotel Reservation",
      namespace |-> "hotel-reserv",
      faulty_service |-> "mongodb-rate",
      fault_type |-> "user_unregistered",
      fault_description |-> "MongoDB user unregistered/deleted",
      workload |-> "hotelReservation/wrk2/scripts/hotel-reservation/mixed-workload_type_1.lua",
      expected_solution |-> "[\"mongodb-rate\"]",
      system_level |-> "Application",
      fault_category |-> "Authentication Issue"],
     \* lines 445-457
     [id |-> "user_unregistered_mongodb-analysis-2",
      task |-> "analysis",
      app |-> "Hotel Reservation",
      namespace |-> "hotel-reserv",
      faulty_service |-> "mongodb-rate",
      fault_type |-> "user_unregistered",
      fault_description |-> "MongoDB user unregistered/deleted",
      workload |-> "hotelReservation/wrk2/scripts/hotel-reservation/mixed-workload_type_1.lua",
      expected_solution |-> "{\"system_level\": \"Application\", \"fault_type\": \"Authentication Issue\"}",
      system_level |-> "Application",
      fault_category |-> "Authentication Issue"],
     \* lines 458-470
     [id |-> "user_unregistered_mongodb-mitigation-2",
      task |-> "mitigation",
      app |-> "Hotel Reservation",
      namespace |-> "hotel-reserv",
      faulty_service |-> "mongodb-rate",
      fault_type |-> "user_unregistered",
      fault_description |-> "MongoDB user unregistered/deleted",
      workload |-> "hotelReservation/wrk2/scripts/hotel-reservation/mixed-workload_type_1.lua",
      expected_solution |-> "Re-register MongoDB user, all pods Running",
      system_level |-> "Application",
      fault_category |-> "Authentication Issue"],
     \* lines 475-487
     [id |-> "misconfig_app_hotel_res-detection-1",
      task |-> "detection",
      app |-> "Hotel Reservation",
      namespace |-> "hotel-reserv",
      faulty_service |-> "frontend",
      fault_type |-> "app_misconfig",
      fault_description |-> "Application misconfiguration in frontend",
      workload |-> "hotelReservation/wrk2/scripts/hotel-reservation/mixed-workload_type_1.lua",
      expected_solution |-> "Yes",
      system_level |-> "Application",
      fault_category |-> "Misconfiguration"],
     \* lines 488-500
     [id |-> "misconfig_app_hotel_res-localization-1",
      task |-> "localization",
      app |-> "Hotel Reservation",
      namespace |-> "hotel-reserv",
      faulty_service |-> "frontend",
      fault_type |-> "app_misconfig",
      fault_description |-> "Application misconfiguration in frontend",
      workload |-> "hotelReservation/wrk2/scripts/hotel-reservation/mixed-workload_type_1.lua",
      expected_solution |-> "[\"frontend\"]",
      system_level |-> "Application",
      fault_category |-> "Misconfiguration"],
     \* lines 501-513
     [id |-> "misconfig_app_hotel_res-analysis-1",
      task |-> "analysis",
      app |-> "Hotel Reservation",
      namespace |-> "hotel-reserv",
      faulty_service |-> "frontend",
      fault_type |-> "app_misconfig",
      fault_description |-> "Application misconfiguration in frontend",
      workload |-> "hotelReservation/wrk2/scripts/hotel-reservation/mixed-workload_type_1.lua",
      expected_solution |-> "{\"system_level\": \"Application\", \"fault_type\": \"Misconfiguration\"}",
      system_level |-> "Application",
      fault_category |-> "Misconfiguration"],
     \* lines 514-526
     [id |-> "misconfig_app_hotel_res-mitigation-1",
      task |-> "mitigation",
      app |-> "Hotel Reservation",
      namespace |-> "hotel-reserv",
      faulty_service |-> "frontend",
      fault_type |-> "app_misconfig",
      fault_description |-> "Application misconfiguration in frontend",
      workload |-> "hotelReservation/wrk2/scripts/hotel-reservation/mixed-workload_type_1.lua",
      expected_solution |-> "Fix configuration, all pods Running",
      system_level |-> "Application",
      fault_category |-> "Misconfiguration"],
     \* lines 531-543
     [id |-> "scale_pod_zero_social_net-detection-1",
      task |-> "detection",
      app |-> "Social Network",
      namespace |-> "social-network",
      faulty_service |-> "compose-post-service",
      fault_type |-> "scale_pod_zero",
      fault_description |-> "Pod scaled to zero replicas",
      workload |-> "socialNetwork/wrk2/scripts/social-network/compose-post.lua",
      expected_solution |-> "Yes",
      system_level |-> "Virtualization",
      fault_category |-> "Operation Error"],
     \* lines 544-556
     [id |-> "scale_pod_zero_social_net-localization-1",
      task |-> "localization",
      app |-> "Social Network",
      namespace |-> "social-network",
      faulty_service |-> "compose-post-service",
      fault_type |-> "scale_pod_zero",
      fault_description |-> "Pod scaled to zero replicas",
      workload |-> "socialNetwork/wrk2/scripts/social-network/compose-post.lua",
      expected_solution |-> "[\"compose-post-service\"]",
      system_level |-> "Virtualization",
      fault_category |-> "Operation Error"],
     \* lines 557-569
     [id |-> "scale_pod_zero_social_net-analysis-1",
      task |-> "analysis",
      app |-> "Social Network",
      namespace |-> "social-network",
      faulty_service |-> "compose-post-service",
      fault_type |-> "scale_pod_zero",
      fault_description |-> "Pod scaled to zero replicas",
      workload |-> "socialNetwork/wrk2/scripts/social-network/compose-post.lua",
      expected_solution |-> "{\"system_level\": \"Virtualization\", \"fault_type\": \"Operation Error\"}",
      system_level |-> "Virtualization",
      fault_category |-> "Operation Error"],
     \* lines 570-582
     [id |-> "scale_pod_zero_social_net-mitigation-1",
      task |-> "mitigation",
      app |-> "Social Network",
      namespace |-> "social-network",
      faulty_service |-> "compose-post-service",
      fault_type |-> "scale_pod_zero",
      fault_description |-> "Pod scaled to zero replicas",
      workload |-> "socialNetwork/wrk2/scripts/social-network/compose-post.lua",
      expected_solution |-> "Scale pod back to 1+, all pods Running",
      system_level |-> "Virtualization",
      fault_category |-> "Operation Error"],
     \* lines 587-599
     [id |-> "assign_to_non_existent_node_social_net-detection-1",
      task |-> "detection",
      app |-> "Social Network",
      namespace |-> "social-network",
      faulty_service |-> "compose-post-service",
      fault_type |-> "assign_non_existent_node",
      fault_description |-> "Pod assigned to non-existent node",
      workload |-> "socialNetwork/wrk2/scripts/social-network/compose-post.lua",
      expected_solution |-> "Yes",
      system_level |-> "Virtualization",
      fault_category |-> "Misconfiguration"],
     \* lines 600-612
     [id |-> "assign_to_non_existent_node_social_net-localization-1",
      task |-> "localization",
      app |-> "Social Network",
      namespace |-> "social-network",
      faulty_service |-> "compose-post-service",
      fault_type |-> "assign_non_existent_node",
      fault_description |-> "Pod assigned to non-existent node",
      workload |-> "socialNetwork/wrk2/scripts/social-network/compose-post.lua",
      expected_solution |-> "[\"compose-post-service\"]",
      system_level |-> "Virtualization",
      fault_category |-> "Misconfiguration"],
     \* lines 613-625
     [id |-> "assign_to_non_existent_node_social_net-analysis-1",
      task |-> "analysis",
      app |-> "Social Network",
      namespace |-> "social-network",
      faulty_service |-> "compose-post-service",
      fault_type |-> "assign_non_existent_node",
      fault_description |-> "Pod assigned to non-existent node",
      workload |-> "socialNetwork/wrk2/scripts/social-network/compose-post.lua",
      expected_solution |-> "{\"system_level\": \"Virtualization\", \"fault_type\": \"Misconfiguration\"}",
      system_level |-> "Virtualization",
      fault_category |-> "Misconfiguration"],
     \* lines 626-638
     [id |-> "assign_to_non_existent_node_social_net-mitigation-1",
      task |-> "mitigation",
      app |-> "Social Network",
      namespace |-> "social-network",
      faulty_service |-> "compose-post-service",
      fault_type |-> "assign_non_existent_node",
      fault_description |-> "Pod assigned to non-existent node",
      workload |-> "socialNetwork/wrk2/scripts/social-network/compose-post.lua",
      expected_solution |-> "Remove invalid node selector, all pods Running",
      system_level |-> "Virtualization",
      fault_category |-> "Misconfiguration"],
     \* lines 643-655
     [id |-> "container_kill-detection",
      task |-> "detection",
      app |-> "Hotel Reservation",
      namespace |-> "hotel-reserv",
      faulty_service |-> "user",
      fault_type |-> "container_kill",
      fault_description |-> "Container killed via Chaos Mesh",
      workload |-> "hotelReservation/wrk2/scripts/hotel-reservation/mixed-workload_type_1.lua",
      expected_solution |-> "Yes",
      system_level |-> "Virtualization",
      fault_category |-> "Operation Error"],
     \* lines 656-668
     [id |-> "container_kill-localization",
      task |-> "localization",
      app |-> "Hotel Reservation",
      namespace |-> "hotel-reserv",
      faulty_service |-> "user",
      fault_type |-> "container_kill",
      fault_description |-> "Container killed via Chaos Mesh",
      workload |-> "hotelReservation/wrk2/scripts/hotel-reservation/mixed-workload_type_1.lua",
      expected_solution |-> "[\"user\"]",
      system_level |-> "Virtualization",
      fault_category |-> "Operation Error"],
     \* lines 669-681
     [id |-> "pod_failure_hotel_res-detection-1",
      task |-> "detection",
      app |-> "Hotel Reservation",
      namespace |-> "hotel-reserv",
      faulty_service |-> "user",
      fault_type |-> "pod_failure",
      fault_description |-> "Pod failure injected via Chaos Mesh",
      workload |-> "hotelReservation/wrk2/scripts/hotel-reservation/mixed-workload_type_1.lua",
      expected_solution |-> "Yes",
      system_level |-> "Virtualization",
      fault_category |-> "Operation Error"],
     \* lines 682-694
     [id |-> "pod_failure_hotel_res-localization-1",
      task |-> "localization",
      app |-> "Hotel Reservation",
      namespace |-> "hotel-reserv",
      faulty_service |-> "user",
      fault_type |-> "pod_failure",
      fault_description |-> "Pod failure injected via Chaos Mesh",
      workload |-> "hotelReservation/wrk2/scripts/hotel-reservation/mixed-workload_type_1.lua",
      expected_solution |-> "[\"user\"]",
      system_level |-> "Virtualization",
      fault_category |-> "Operation Error"],
     \* lines 695-707
     [id |-> "pod_kill_hotel_res-detection-1",
      task |-> "detection",
      app |-> "Hotel Reservation",
      namespace |-> "hotel-reserv",
      faulty_service |-> "user",
      fault_type |-> "pod_kill",
      fault_description |-> "Pod killed via Chaos Mesh",
      workload |-> "hotelReservation/wrk2/scripts/hotel-reservation/mixed-workload_type_1.lua",
      expected_solution |-> "Yes",
      system_level |-> "Virtualization",
      fault_category |-> "Operation Error"],
     \* lines 708-720
     [id |-> "pod_kill_hotel_res-localization-1",
      task |-> "localization",
      app |-> "Hotel Reservation",
      namespace |-> "hotel-reserv",
      faulty_service |-> "user",
      fault_type |-> "pod_kill",
      fault_description |-> "Pod killed via Chaos Mesh",
      workload |-> "hotelReservation/wrk2/scripts/hotel-reservation/mixed-workload_type_1.lua",
      expected_solution |-> "[\"user\"]",
      system_level |-> "Virtualization",
      fault_category |-> "Operation Error"],
     \* lines 721-733
     [id |-> "network_loss_hotel_res-detection-1",
      task |-> "detection",
      app |-> "Hotel Reservation",
      namespace |-> "hotel-reserv",
      faulty_service |-> "user",
      fault_type |-> "network_loss",
      fault_description |-> "Network packet loss injected",
      workload |-> "hotelReservation/wrk2/scripts/hotel-reservation/mixed-workload_type_1.lua",
      expected_solution |-> "Yes",
      system_level |-> "Operating System",
      fault_category |-> "Network/Storage Issue"],
     \* lines 734-746
     [id |-> "network_loss_hotel_res-localization-1",
      task |-> "localization",
      app |-> "Hotel Reservation",
      namespace |-> "hotel-reserv",
      faulty_service |-> "user",
      fault_type |-> "network_loss",
      fault_description |-> "Network packet loss injected",
      workload |-> "hotelReservation/wrk2/scripts/hotel-reservation/mixed-workload_type_1.lua",
      expected_solution |-> "[\"user\"]",
      system_level |-> "Operating System",
      fault_category |-> "Network/Storage Issue"],
     \* lines 747-759
     [id |-> "network_delay_hotel_res-detection-1",
      task |-> "detection",
      app |-> "Hotel Reservation",
      namespace |-> "hotel-reserv",
      faulty_service |-> "user",
      fault_type |-> "network_delay",
      fault_description |-> "Network delay/latency injected",
      workload |-> "hotelReservation/wrk2/scripts/hotel-reservation/mixed-workload_type_1.lua",
      expected_solution |-> "Yes",
      system_level |-> "Operating System",
      fault_category |-> "Network/Storage Issue"],
     \* lines 760-772
     [id |-> "network_delay_hotel_res-localization-1",
      task |-> "localization",
      app |-> "Hotel Reservation",
      namespace |-> "hotel-reserv",
      faulty_service |-> "user",
      fault_type |-> "network_delay",
      fault_description |-> "Network delay/latency injected",
      workload |-> "hotelReservation/wrk2/scripts/hotel-reservation/mixed-workload_type_1.lua",
      expected_solution |-> "[\"user\"]",
      system_level |-> "Operating System",
      fault_category |-> "Network/Storage Issue"],
     \* lines 777-789
     [id |-> "noop_detection_hotel_reservation-1",
      task |-> "detection",
      app |-> "Hotel Reservation",
      namespace |-> "hotel-reserv",
      faulty_service |-> "N/A",
      fault_type |-> "noop",
      fault_description |-> "No fault injected (baseline test)",
      workload |-> "hotelReservation/wrk2/scripts/hotel-reservation/mixed-workload_type_1.lua",
      expected_solution |-> "No",
      system_level |-> "N/A",
      fault_category |-> "N/A"],
     \* lines 790-802
     [id |-> "noop_detection_social_network-1",
      task |-> "detection",
      app |-> "Social Network",
      namespace |-> "social-network",
      faulty_service |-> "N/A",
      fault_type |-> "noop",
      fault_description |-> "No fault injected (baseline test)",
      workload |-> "socialNetwork/wrk2/scripts/social-network/compose-post.lua",
      expected_solution |-> "No",
      system_level |-> "N/A",
      fault_category |-> "N/A"],
     \* lines 803-815
     [id |-> "noop_detection_astronomy_shop-1",
      task |-> "detection",
      app |-> "Astronomy Shop",
      namespace |-> "astronomy-shop",
      faulty_service |-> "N/A",
      fault_type |-> "noop",
      fault_description |-> "No fault injected (baseline test)",
      workload |-> "N/A",
      expected_solution |-> "No",
      system_level |-> "N/A",
      fault_category |-> "N/A"],
     \* lines 820-832
     [id |-> "astronomy_shop_ad_service_failure-detection-1",
      task |-> "detection",
      app |-> "Astronomy Shop",
      namespace |-> "astronomy-shop",
      faulty_service |-> "ad-service",
      fault_type |-> "feature_flag_failure",
      fault_description |-> "Ad service failure via feature flag",
      workload |-> "OpenTelemetry Demo workload",
      expected_solution |-> "Yes",
      system_level |-> "Application",
      fault_category |-> "Code Defect"],
     \* lines 833-845
     [id |-> "astronomy_shop_ad_service_failure-localization-1",
      task |-> "localization",
      app |-> "Astronomy Shop",
      namespace |-> "astronomy-shop",
      faulty_service |-> "ad-service",
      fault_type |-> "feature_flag_failure",
      fault_description |-> "Ad service failure via feature flag",
      workload |-> "OpenTelemetry Demo workload",
      expected_solution |-> "[\"ad-service\"]",
      system_level |-> "Application",
      fault_category |-> "Code Defect"],
     \* lines 846-858
     [id |-> "astronomy_shop_ad_service_high_cpu-detection-1",
      task |-> "detection",
      app |-> "Astronomy Shop",
      namespace |-> "astronomy-shop",
      faulty_service |-> "ad-service",
      fault_type |-> "high_cpu",
      fault_description |-> "Ad service high CPU usage via feature flag",
      workload |-> "OpenTelemetry Demo workload",
      expected_solution |-> "Yes",
      system_level |-> "Application",
      fault_category |-> "Code Defect"],
     \* lines 859-871
     [id |-> "astronomy_shop_ad_service_high_cpu-localization-1",
      task |-> "localization",
      app |-> "Astronomy Shop",
      namespace |-> "astronomy-shop",
      faulty_service |-> "ad-service",
      fault_type |-> "high_cpu",
      fault_description |-> "Ad service high CPU usage via feature flag",
      workload |-> "OpenTelemetry Demo workload",
      expected_solution |-> "[\"ad-service\"]",
      system_level |-> "Application",
      fault_category |-> "Code Defect"],
     \* lines 872-884
     [id |-> "astronomy_shop_ad_service_manual_gc-detection-1",
      task |-> "detection",
      app |-> "Astronomy Shop",
      namespace |-> "astronomy-shop",
      faulty_service |-> "ad-service",
      fault_type |-> "manual_gc",
      fault_description |-> "Ad service manual garbage collection issue",
      workload |-> "OpenTelemetry Demo workload",
      expected_solution |-> "Yes",
      system_level |-> "Application",
      fault_category |-> "Code Defect"],
     \* lines 885-897
     [id |-> "astronomy_shop_ad_service_manual_gc-localization-1",
      task |-> "localization",
      app |-> "Astronomy Shop",
      namespace |-> "astronomy-shop",
      faulty_service |-> "ad-service",
      fault_type |-> "manual_gc",
      fault_description |-> "Ad service manual garbage collection issue",
      workload |-> "OpenTelemetry Demo workload",
      expected_solution |-> "[\"ad-service\"]",
      system_level |-> "Application",
      fault_category |-> "Code Defect"],
     \* lines 898-910
     [id |-> "astronomy_shop_cart_service_failure-detection-1",
      task |-> "detection",
      app |-> "Astronomy Shop",
      namespace |-> "astronomy-shop",
      faulty_service |-> "cart-service",
      fault_type |-> "service_failure",
      fault_description |-> "Cart service failure via feature flag",
      workload |-> "OpenTelemetry Demo workload",
      expected_solution |-> "Yes",
      system_level |-> "Application",
      fault_category |-> "Code Defect"],
     \* lines 911-923
     [id |-> "astronomy_shop_cart_service_failure-localization-1",
      task |-> "localization",
      app |-> "Astronomy Shop",
      namespace |-> "astronomy-shop",
      faulty_service |-> "cart-service",
      fault_type |-> "service_failure",
      fault_description |-> "Cart service failure via feature flag",
      workload |-> "OpenTelemetry Demo workload",
      expected_solution |-> "[\"cart-service\"]",
      system_level |-> "Application",
      fault_category |-> "Code Defect"],
     \* lines 924-936
     [id |-> "astronomy_shop_image_slow_load-detection-1",
      task |-> "detection",
      app |-> "Astronomy Shop",
      namespace |-> "astronomy-shop",
      faulty_service |-> "image-provider",
      fault_type |-> "slow_load",
      fault_description |-> "Image provider slow loading",
      workload |-> "OpenTelemetry Demo workload",
      expected_solution |-> "Yes",
      system_level |-> "Application",
      fault_category |-> "Code Defect"],
     \* lines 937-949
     [id |-> "astronomy_shop_image_slow_load-localization-1",
      task |-> "localization",
      app |-> "Astronomy Shop",
      namespace |-> "astronomy-shop",
      faulty_service |-> "image-provider",
      fault_type |-> "slow_load",
      fault_description |-> "Image provider slow loading",
      workload |-> "OpenTelemetry Demo workload",
      expected_solution |-> "[\"image-provider\"]",
      system_level |-> "Application",
      fault_category |-> "Code Defect"],
     \* lines 950-962
     [id |-> "astronomy_shop_kafka_queue_problems-detection-1",
      task |-> "detection",
      app |-> "Astronomy Shop",
      namespace |-> "astronomy-shop",
      faulty_service |-> "kafka",
      fault_type |-> "queue_problems",
      fault_description |-> "Kafka queue processing issues",
      workload |-> "OpenTelemetry Demo workload",
      expected_solution |-> "Yes",
      system_level |-> "Application",
      fault_category |-> "Dependency Problem"],
     \* lines 963-975
     [id |-> "astronomy_shop_kafka_queue_problems-localization-1",
      task |-> "localization",
      app |-> "Astronomy Shop",
      namespace |-> "astronomy-shop",
      faulty_service |-> "kafka",
      fault_type |-> "queue_problems",
      fault_description |-> "Kafka queue processing issues",
      workload |-> "OpenTelemetry Demo workload",
      expected_solution |-> "[\"kafka\"]",
      system_level |-> "Application",
      fault_category |-> "Dependency Problem"],
     \* lines 976-988
     [id |-> "astronomy_shop_kafka_queue_problems-mitigation-1",
      task |-> "mitigation",
      app |-> "Astronomy Shop",
      namespace |-> "astronomy-shop",
      faulty_service |-> "kafka",
      fault_type |-> "queue_problems",
      fault_description |-> "Kafka queue processing issues",
      workload |-> "OpenTelemetry Demo workload",
      expected_solution |-> "Fix Kafka queue, all pods Running",
      system_level |-> "Application",
      fault_category |-> "Dependency Problem"],
     \* lines 989-1001
     [id |-> "astronomy_shop_loadgenerator_flood_homepage-detection-1",
      task |-> "detection",
      app |-> "Astronomy Shop",
      namespace |-> "astronomy-shop",
      faulty_service |-> "loadgenerator",
      fault_type |-> "flood_homepage",
      fault_description |-> "Load generator flooding homepage",
      workload |-> "OpenTelemetry Demo workload",
      expected_solution |-> "Yes",
      system_level |-> "Application",
      fault_category |-> "Operation Error"],
     \* lines 1002-1014
     [id |-> "astronomy_shop_loadgenerator_flood_homepage-localization-1",
      task |-> "localization",
      app |-> "Astronomy Shop",
      namespace |-> "astronomy-shop",
      faulty_service |-> "loadgenerator",
      fault_type |-> "flood_homepage",
      fault_description |-> "Load generator flooding homepage",
      workload |-> "OpenTelemetry Demo workload",
      expected_solution |-> "[\"loadgenerator\"]",
      system_level |-> "Application",
      fault_category |-> "Operation Error"],
     \* lines 1015-1027
     [id |-> "astronomy_shop_payment_service_failure-detection-1",
      task |-> "detection",
      app |-> "Astronomy Shop",
      namespace |-> "astronomy-shop",
      faulty_service |-> "payment-service",
      fault_type |-> "service_failure",
      fault_description |-> "Payment service failure via feature flag",
      workload |-> "OpenTelemetry Demo workload",
      expected_solution |-> "Yes",
      system_level |-> "Application",
      fault_category |-> "Code Defect"],
     \* lines 1028-1040
     [id |-> "astronomy_shop_payment_service_failure-localization-1",
      task |-> "localization",
      app |-> "Astronomy Shop",
      namespace |-> "astronomy-shop",
      faulty_service |-> "payment-service",
      fault_type |-> "service_failure",
      fault_description |-> "Payment service failure via feature flag",
      workload |-> "OpenTelemetry Demo workload",
      expected_solution |-> "[\"payment-service\"]",
      system_level |-> "Application",
      fault_category |-> "Code Defect"],
     \* lines 1041-1053
     [id |-> "astronomy_shop_payment_service_unreachable-detection-1",
      task |-> "detection",
      app |-> "Astronomy Shop",
      namespace |-> "astronomy-shop",
      faulty_service |-> "payment-service",
      fault_type |-> "unreachable",
      fault_description |-> "Payment service unreachable",
      workload |-> "OpenTelemetry Demo workload",
      expected_solution |-> "Yes",
      system_level |-> "Application",
      fault_category |-> "Network/Storage Issue"],
     \* lines 1054-1066
     [id |-> "astronomy_shop_payment_service_unreachable-localization-1",
      task |-> "localization",
      app |-> "Astronomy Shop",
      namespace |-> "astronomy-shop",
      faulty_service |-> "payment-service",
      fault_type |-> "unreachable",
      fault_description |-> "Payment service unreachable",
      workload |-> "OpenTelemetry Demo workload",
      expected_solution |-> "[\"payment-service\"]",
      system_level |-> "Application",
      fault_category |-> "Network/Storage Issue"],
     \* lines 1067-1079
     [id |-> "astronomy_shop_product_catalog_service_failure-detection-1",
      task |-> "detection",
      app |-> "Astronomy Shop",
      namespace |-> "astronomy-shop",
      faulty_service |-> "product-catalog-service",
      fault_type |-> "service_failure",
      fault_description |-> "Product catalog service failure",
      workload |-> "OpenTelemetry Demo workload",
      expected_solution |-> "Yes",
      system_level |-> "Application",
      fault_category |-> "Code Defect"],
     \* lines 1080-1092
     [id |-> "astronomy_shop_product_catalog_service_failure-localization-1",
      task |-> "localization",
      app |-> "Astronomy Shop",
      namespace |-> "astronomy-shop",
      faulty_service |-> "product-catalog-service",
      fault_type |-> "service_failure",
      fault_description |-> "Product catalog service failure",
      workload |-> "OpenTelemetry Demo workload",
      expected_solution |-> "[\"product-catalog-service\"]",
      system_level |-> "Application",
      fault_category |-> "Code Defect"],
     \* lines 1093-1105
     [id |-> "astronomy_shop_recommendation_service_cache_failure-detection-1",
      task |-> "detection",
      app |-> "Astronomy Shop",
      namespace |-> "astronomy-shop",
      faulty_service |-> "recommendation-service",
      fault_type |-> "cache_failure",
      fault_description |-> "Recommendation service cache failure",
      workload |-> "OpenTelemetry Demo workload",
      expected_solution |-> "Yes",
      system_level |-> "Application",
      fault_category |-> "Code Defect"],
     \* lines 1106-1118
     [id |-> "astronomy_shop_recommendation_service_cache_failure-localization-1",
      task |-> "localization",
      app |-> "Astronomy Shop",
      namespace |-> "astronomy-shop",
      faulty_service |-> "recommendation-service",
      fault_type |-> "cache_failure",
      fault_description |-> "Recommendation service cache failure",
      workload |-> "OpenTelemetry Demo workload",
      expected_solution |-> "[\"recommendation-service\"]",
      system_level |-> "Application",
      fault_category |-> "Code Defect"],
     \* lines 1123-1135
     [id |-> "redeploy_without_PV-detection-1",
      task |-> "detection",
      app |-> "Hotel Reservation",
      namespace |-> "hotel-reserv",
      faulty_service |-> "mongodb",
      fault_type |-> "redeploy_without_pv",
      fault_description |-> "Namespace redeployed without deleting PersistentVolume",
      workload |-> "hotelReservation/wrk2/scripts/hotel-reservation/mixed-workload_type_1.lua",
      expected_solution |-> "Yes",
      system_level |-> "Virtualization",
      fault_category |-> "Operation Error"],
     \* lines 1136-1148
     [id |-> "redeploy_without_PV-analysis-1",
      task |-> "analysis",
      app |-> "Hotel Reservation",
      namespace |-> "hotel-reserv",
      faulty_service |-> "mongodb",
      fault_type |-> "redeploy_without_pv",
      fault_description |-> "Namespace redeployed without deleting PersistentVolume",
      workload |-> "hotelReservation/wrk2/scripts/hotel-reservation/mixed-workload_type_1.lua",
      expected_solution |-> "{\"system_level\": \"Virtualization\", \"fault_type\": \"Operation Error\"}",
      system_level |-> "Virtualization",
      fault_category |-> "Operation Error"],
     \* lines 1149-1161
     [id |-> "redeploy_without_PV-mitigation-1",
      task |-> "mitigation",
      app |-> "Hotel Reservation",
      namespace |-> "hotel-reserv",
      faulty_service |-> "mongodb",
      fault_type |-> "redeploy_without_pv",
      fault_description |-> "Namespace redeployed without deleting PersistentVolume",
      workload |-> "hotelReservation/wrk2/scripts/hotel-reservation/mixed-workload_type_1.lua",
      expected_solution |-> "Delete old PV and recreate, all pods Running",
      system_level |-> "Virtualization",
      fault_category |-> "Operation Error"],
     \* lines 1166-1178
     [id |-> "wrong_bin_usage-detection-1",
      task |-> "detection",
      app |-> "General",
      namespace |-> "default",
      faulty_service |-> "app",
      fault_type |-> "wrong_bin_usage",
      fault_description |-> "Wrong binary being used in container",
      workload |-> "N/A",
      expected_solution |-> "Yes",
      system_level |-> "Application",
      fault_category |-> "Misconfiguration"],
     \* lines 1179-1191
     [id |-> "wrong_bin_usage-localization-1",
      task |-> "localization",
      app |-> "General",
      namespace |-> "default",
      faulty_service |-> "app",
      fault_type |-> "wrong_bin_usage",
      fault_description |-> "Wrong binary being used in container",
      workload |-> "N/A",
      expected_solution |-> "[\"app\"]",
      system_level |-> "Application",
      fault_category |-> "Misconfiguration"],
     \* lines 1192-1204
     [id |-> "wrong_bin_usage-analysis-1",
      task |-> "analysis",
      app |-> "General",
      namespace |-> "default",
      faulty_service |-> "app",
      fault_type |-> "wrong_bin_usage",
      fault_description |-> "Wrong binary being used in container",
      workload |-> "N/A",
      expected_solution |-> "{\"system_level\": \"Application\", \"fault_type\": \"Misconfiguration\"}",
      system_level |-> "Application",
      fault_category |-> "Misconfiguration"],
     \* lines 1205-1217
     [id |-> "wrong_bin_usage-mitigation-1",
      task |-> "mitigation",
      app |-> "General",
      namespace |-> "default",
      faulty_service |-> "app",
      fault_type |-> "wrong_bin_usage",
      fault_description |-> "Wrong binary being used in container",
      workload |-> "N/A",
      expected_solution |-> "Fix binary path, all pods Running",
      system_level |-> "Application",
      fault_category |-> "Misconfiguration"],
     \* lines 1222-1235
     [id |-> "flower_node_stop-detection",
      task |-> "detection",
      app |-> "Flower (FL)",
      namespace |-> "docker",
      faulty_service |-> "node",
      fault_type |-> "node_stop",
      fault_description |-> "Federated learning node stopped",
      workload |-> "Flower FL workload",
      expected_solution |-> "Yes",
      system_level |-> "Application",
      fault_category |-> "Operation Error",
      deployment |-> "docker"],
     \* lines 1236-1249
     [id |-> "flower_model_misconfig-detection",
      task |-> "detection",
      app |-> "Flower (FL)",
      namespace |-> "docker",
      faulty_service |-> "model",
      fault_type |-> "model_misconfig",
      fault_description |-> "Federated learning model misconfiguration",
      workload |-> "Flower FL workload",
      expected_solution |-> "Yes",
      system_level |-> "Application",
      fault_category |-> "Misconfiguration",
      deployment |-> "docker"]
  >>

\* The characters of a string, cut at the characters the csv and json encoders
\* treat specially (comma, double quote, CR, LF, backslash): each of those is a
\* piece of its own, every other run of characters is one piece.
Pieces(s) ==
  CASE s = "Delete old PV and recreate, all pods Running" ->
         <<"Delete old PV and recreate", ",", " all pods Running">>
    [] s = "Fix Kafka queue, all pods Running" ->
         <<"Fix Kafka queue", ",", " all pods Running">>
    [] s = "Fix binary path, all pods Running" ->
         <<"Fix binary path", ",", " all pods Running">>
    [] s = "Fix configuration, all pods Running" ->
         <<"Fix configuration", ",", " all pods Running">>
    [] s = "Re-register MongoDB user, all pods Running" ->
         <<"Re-register MongoDB user", ",", " all pods Running">>
    [] s = "Remove invalid node selector, all pods Running" ->
         <<"Remove invalid node selector", ",", " all pods Running">>
    [] s = "Reset target port to 9090, all pods Running" ->
         <<"Reset target port to 9090", ",", " all pods Running">>
    [] s = "Restore MongoDB authentication, all pods Running" ->
         <<"Restore MongoDB authentication", ",", " all pods Running">>
    [] s = "Scale pod back to 1+, all pods Running" ->
         <<"Scale pod back to 1+", ",", " all pods Running">>
    [] s = "[\"ad-service\"]" ->
         <<"[", "\"", "ad-service", "\"", "]">>
    [] s = "[\"app\"]" ->
         <<"[", "\"", "app", "\"", "]">>
    [] s = "[\"cart-service\"]" ->
         <<"[", "\"", "cart-service", "\"", "]">>
    [] s = "[\"compose-post-service\"]" ->
         <<"[", "\"", "compose-post-service", "\"", "]">>
    [] s = "[\"frontend\"]" ->
         <<"[", "\"", "frontend", "\"", "]">>
    [] s = "[\"image-provider\"]" ->
         <<"[", "\"", "image-provider", "\"", "]">>
    [] s = "[\"kafka\"]" ->
         <<"[", "\"", "kafka", "\"", "]">>
    [] s = "[\"loadgenerator\"]" ->
         <<"[", "\"", "loadgenerator", "\"", "]">>
    [] s = "[\"mongodb-geo\"]" ->
         <<"[", "\"", "mongodb-geo", "\"", "]">>
    [] s = "[\"mongodb-rate\"]" ->
         <<"[", "\"", "mongodb-rate", "\"", "]">>
    [] s = "[\"payment-service\"]" ->
         <<"[", "\"", "payment-service", "\"", "]">>
    [] s = "[\"post-storage-service\"]" ->
         <<"[", "\"", "post-storage-service", "\"", "]">>
    [] s = "[\"product-catalog-service\"]" ->
         <<"[", "\"", "product-catalog-service", "\"", "]">>
    [] s = "[\"recommendation-service\"]" ->
         <<"[", "\"", "recommendation-service", "\"", "]">>
    [] s = "[\"text-service\"]" ->
         <<"[", "\"", "text-service", "\"", "]">>
    [] s = "[\"user\"]" ->
         <<"[", "\"", "user", "\"", "]">>
    [] s = "[\"user-service\"]" ->
         <<"[", "\"", "user-service", "\"", "]">>
    [] s = "dict: {\"system_level\": \"...\", \"fault_type\": \"...\"}" ->
         <<"dict: {", "\"", "system_level", "\"", ": ", "\"", "...", "\"", ",", " ", "\"", "fault_type", "\"", ": ", "\"", "...", "\"", "}">>
    [] s = "str: \"Yes\" or \"No\"" ->
         <<"str: ", "\"", "Yes", "\"", " or ", "\"", "No", "\"">>
    [] s = "{\"system_level\": \"Application\", \"fault_type\": \"Authentication Issue\"}" ->
         <<"{", "\"", "system_level", "\"", ": ", "\"", "Application", "\"", ",", " ", "\"", "fault_type", "\"", ": ", "\"", "Authentication Issue", "\"", "}">>
    [] s = "{\"system_level\": \"Application\", \"fault_type\": \"Misconfiguration\"}" ->
         <<"{", "\"", "system_level", "\"", ": ", "\"", "Application", "\"", ",", " ", "\"", "fault_type", "\"", ": ", "\"", "Misconfiguration", "\"", "}">>
    [] s = "{\"system_level\": \"Virtualization\", \"fault_type\": \"Misconfiguration\"}" ->
         <<"{", "\"", "system_level", "\"", ": ", "\"", "Virtualization", "\"", ",", " ", "\"", "fault_type", "\"", ": ", "\"", "Misconfiguration", "\"", "}">>
    [] s = "{\"system_level\": \"Virtualization\", \"fault_type\": \"Operation Error\"}" ->
         <<"{", "\"", "system_level", "\"", ": ", "\"", "Virtualization", "\"", ",", " ", "\"", "fault_type", "\"", ": ", "\"", "Operation Error", "\"", "}">>
    [] OTHER -> IF s = "" THEN <<>> ELSE <<s>>

\* The code points of the strings used as grouping keys (what sorted() compares).
CodePoints(s) ==
  CASE s = "Application" ->
         <<65, 112, 112, 108, 105, 99, 97, 116, 105, 111, 110>>
    [] s = "Astronomy Shop" ->
         <<65, 115, 116, 114, 111, 110, 111, 109, 121, 32, 83, 104, 111, 112>>
    [] s = "Authentication Issue" ->
         <<65, 117, 116, 104, 101, 110, 116, 105, 99, 97, 116, 105, 111, 110, 32, 73, 115, 115, 117, 101>>
    [] s = "Code Defect" ->
         <<67, 111, 100, 101, 32, 68, 101, 102, 101, 99, 116>>
    [] s = "Dependency Problem" ->
         <<68, 101, 112, 101, 110, 100, 101, 110, 99, 121, 32, 80, 114, 111, 98, 108, 101, 109>>
    [] s = "Flower (FL)" ->
         <<70, 108, 111, 119, 101, 114, 32, 40, 70, 76, 41>>
    [] s = "General" ->
         <<71, 101, 110, 101, 114, 97, 108>>
    [] s = "Hotel Reservation" ->
         <<72, 111, 116, 101, 108, 32, 82, 101, 115, 101, 114, 118, 97, 116, 105, 111, 110>>
    [] s = "Misconfiguration" ->
         <<77, 105, 115, 99, 111, 110, 102, 105, 103, 117, 114, 97, 116, 105, 111, 110>>
    [] s = "N/A" ->
         <<78, 47, 65>>
    [] s = "Network/Storage Issue" ->
         <<78, 101, 116, 119, 111, 114, 107, 47, 83, 116, 111, 114, 97, 103, 101, 32, 73, 115, 115, 117, 101>>
    [] s = "Operating System" ->
         <<79, 112, 101, 114, 97, 116, 105, 110, 103, 32, 83, 121, 115, 116, 101, 109>>
    [] s = "Operation Error" ->
         <<79, 112, 101, 114, 97, 116, 105, 111, 110, 32, 69, 114, 114, 111, 114>>
    [] s = "Social Network" ->
         <<83, 111, 99, 105, 97, 108, 32, 78, 101, 116, 119, 111, 114, 107>>
    [] s = "Virtualization" ->
         <<86, 105, 114, 116, 117, 97, 108, 105, 122, 97, 116, 105, 111, 110>>

\* Faulty variants of the registry: a record pasted without renaming its id,
\* and a record with a mistyped task.
RegistryWithRepeatedId ==
  [RegistryLiteral EXCEPT ![2] = [@ EXCEPT !.id = RegistryLiteral[1].id]]

RegistryWithUnknownTask ==
  [RegistryLiteral EXCEPT ![4] = [@ EXCEPT !.task = "mitigate"]]

\* Further faulty variants: a record classified at a level the analysis
\* descriptor does not list, a detection record answered in free text, an
\* analysis record whose answer names another level than the record, and a
\* no-op record answered Yes.
RegistryWithUnknownLevel ==
  [RegistryLiteral EXCEPT ![4] = [@ EXCEPT !.system_level = "Network"]]

RegistryWithFreeTextDetection ==
  [RegistryLiteral EXCEPT ![1] = [@ EXCEPT !.expected_solution = "Anomaly present"]]

RegistryWithMismatchedAnalysis ==
  [RegistryLiteral EXCEPT ![3] = [@ EXCEPT !.system_level = "Operating System"]]

RegistryWithNoopAnsweredYes ==
  [RegistryLiteral EXCEPT ![55] = [@ EXCEPT !.expected_solution = "Yes"]]

\* The list object the name PROBLEMS is bound to when the module is imported.
PROBLEMS_at_import == RegistryLiteral

\* The dict object the name TASK_TYPES is bound to when the module is imported.
TASK_TYPES_at_import == TaskTypesLiteral

-----------------------------------------------------------------------------
\* Python built-ins the script uses.

\* d.keys() and d[k] of an insertion-ordered dict kept as key/value pairs.
Keys(d) == [k \in 1..Len(d) |-> d[k].key]
Get(d, key) == (CHOOSE e \in {d[k] : k \in 1..Len(d)} : e.key = key).value

\* a < b on strings: lexicographic on code points, a proper prefix first.
LexLess(a, b) ==
  LET n == IF Len(a) < Len(b) THEN Len(a) ELSE Len(b)
      diff == {k \in 1..n : a[k] # b[k]}
  IN  IF diff = {} THEN Len(a) < Len(b)
      ELSE LET first == CHOOSE k \in diff : \A j \in diff : k <= j
           IN  a[first] < b[first]

StrLess(a, b) == LexLess(CodePoints(a), CodePoints(b))

\* sorted(xs): the elements in ascending order (an insertion sort; the elements
\* the script sorts are distinct, so stability does not show).
RECURSIVE Insert(_, _)
Insert(x, s) ==
  IF s = <<>> THEN <<x>>
  ELSE IF StrLess(x, Head(s)) THEN <<x>> \o s
  ELSE <<Head(s)>> \o Insert(x, Tail(s))

RECURSIVE sorted(_)
sorted(xs) == IF xs = <<>> THEN <<>> ELSE Insert(Head(xs), sorted(Tail(xs)))

\* Iterating a set of strings: the order depends on the hash seed of the
\* process.  Seed 0 happens to give ascending order, an odd seed reverses,
\* and seed div 2 rotates.
RECURSIVE Ascending(_)
Ascending(S) ==
  IF S = {} THEN <<>>
  ELSE LET m == CHOOSE x \in S : \A y \in S : ~StrLess(y, x)
       IN  <<m>> \o Ascending(S \ {m})

Reverse(s) == [k \in 1..Len(s) |-> s[Len(s) + 1 - k]]

Rotate(s, r) ==
  IF s = <<>> THEN s
  ELSE LET n == Len(s)
           k == r % n
       IN  SubSeq(s, k + 1, n) \o SubSeq(s, 1, k)

SetIter(S, seed) ==
  LET rot == Rotate(Ascending(S), seed \div 2)
  IN  IF seed % 2 = 1 THEN Reverse(rot) ELSE rot

\* set(p[field] for p in problems)
FieldSet(problems, field) == {problems[k][field] : k \in 1..Len(problems)}

\* [p for p in problems if p[field] == value]
Filter(problems, field, value) ==
  SelectSeq(problems, LAMBDA p : p[field] = value)

\* The keys in the order the set yields them, unsorted.
UnsortedFieldValues(problems, field, seed) ==
  SetIter(FieldSet(problems, field), seed)

\* sorted(set(p[field] for p in problems)) in a process with the given seed
SortedFieldValues(problems, field, seed) ==
  sorted(SetIter(FieldSet(problems, field), seed))

\* str.upper() and str.capitalize() on the task names
upper(s) ==
  CASE s = "detection" -> "DETECTION"
    [] s = "localization" -> "LOCALIZATION"
    [] s = "analysis" -> "ANALYSIS"
    [] s = "mitigation" -> "MITIGATION"

capitalize(s) ==
  CASE s = "detection" -> "Detection"
    [] s = "localization" -> "Localization"
    [] s = "analysis" -> "Analysis"
    [] s = "mitigation" -> "Mitigation"

\* "=" * 100, "-" * 100 and "=" * 70
Eq100 ==
  "===================================================================================================="

Dash100 ==
  "----------------------------------------------------------------------------------------------------"

Eq70 == "======================================================================"

\* The concatenation of a sequence of sequences (by halves).
RECURSIVE Flatten(_)
Flatten(ss) ==
  IF Len(ss) = 0 THEN <<>>
  ELSE IF Len(ss) = 1 THEN ss[1]
  ELSE LET h == Len(ss) \div 2
       IN  Flatten(SubSeq(ss, 1, h)) \o Flatten(SubSeq(ss, h + 1, Len(ss)))

\* f"{i:3}": i in decimal, right-aligned in three columns
Pad3(i) ==
  IF i < 10 THEN "  " \o ToString(i)
  ELSE IF i < 100 THEN " " \o ToString(i)
  ELSE ToString(i)

\* sep.join(xs), as pieces
join(sep, xs) ==
  Flatten([k \in 1..Len(xs) |-> IF k < Len(xs) THEN <<xs[k], sep>> ELSE <<xs[k]>>])

\* The four task kinds in the order every exporter lists them.
TaskOrder == <<"detection", "localization", "analysis", "mitigation">>

-----------------------------------------------------------------------------
\* save_to_json

\* by_task with a key only for the task kinds that have a record.
ByTaskPresentOnly(problems) ==
  SelectSeq([k \in 1..Len(TaskOrder) |->
               [key |-> TaskOrder[k],
                value |-> Len(Filter(problems, "task", TaskOrder[k]))]],
            LAMBDA e : e.value > 0)

\* A faulty variant: the list of task kinds lacks the last one.
ByTaskThreeKinds(problems) ==
  [k \in 1..(Len(TaskOrder) - 1) |->
     [key |-> TaskOrder[k], value |-> Len(Filter(problems, "task", TaskOrder[k]))]]

\* by_task counting every record, the records of no kind under the last kind.
ByTaskCountingTheRest(problems) ==
  [k \in 1..Len(TaskOrder) |->
     [key |-> TaskOrder[k],
      value |-> IF k < Len(TaskOrder)
                THEN Len(Filter(problems, "task", TaskOrder[k]))
                ELSE Len(problems) - Len(Filter(problems, "task", TaskOrder[1]))
                                   - Len(Filter(problems, "task", TaskOrder[2]))
                                   - Len(Filter(problems, "task", TaskOrder[3]))]]

\* The summary counts: one entry per task kind, one per app present.
ByTask(problems) ==
  [k \in 1..Len(TaskOrder) |->
     [key |-> TaskOrder[k], value |-> Len(Filter(problems, "task", TaskOrder[k]))]]

\* by_app with its keys in the order the set yields them.
ByAppUnsorted(problems, seed) ==
  LET apps == SetIter(FieldSet(problems, "app"), seed)
  IN  [k \in 1..Len(apps) |->
         [key |-> apps[k], value |-> Len(Filter(problems, "app", apps[k]))]]

\* by_app that counts the apps present instead of the records of each.
ByAppKeysOnly(problems, seed) ==
  LET apps == SortedFieldValues(problems, "app", seed)
  IN  [k \in 1..Len(apps) |-> [key |-> apps[k], value |-> 1]]

ByApp(problems, seed) ==
  LET apps == SortedFieldValues(problems, "app", seed)
  IN  [k \in 1..Len(apps) |->
         [key |-> apps[k], value |-> Len(Filter(problems, "app", apps[k]))]]

\* problems.sort(key=task kind): the list itself put in section order.
SortedByTask(problems) ==
  Flatten([k \in 1..Len(TaskOrder) |-> Filter(problems, "task", TaskOrder[k])])

\* The output dict with its record list in section order.
JsonOutputSortedByTask(problems, seed) ==
  [task_types |-> TASK_TYPES,
   problems   |-> SortedByTask(problems),
   summary    |-> [total   |-> Len(problems),
                   by_task |-> ByTask(problems),
                   by_app  |-> ByApp(problems, seed)]]

\* The dict save_to_json builds.
JsonOutput(problems, seed) ==
  [task_types |-> TASK_TYPES,
   problems   |-> problems,
   summary    |-> [total   |-> Len(problems),
                   by_task |-> ByTask(problems),
                   by_app  |-> ByApp(problems, seed)]]

\* json.dump of a string: quoted, with quote, backslash, LF and CR escaped.
JsonEscape(ps) ==
  Flatten([k \in 1..Len(ps) |->
             CASE ps[k] = "\"" -> <<"\\", "\"">>
               [] ps[k] = "\\" -> <<"\\", "\\">>
               [] ps[k] = "\n" -> <<"\\", "n">>
               [] ps[k] = "\r" -> <<"\\", "r">>
               [] OTHER        -> <<ps[k]>>])

JsonString(s) == <<"\"">> \o JsonEscape(Pieces(s)) \o <<"\"">>

\* json.dump of a dict of strings, of a dict kept as pairs, of a task type entry
JsonRecord(p) == [f \in DOMAIN p |-> JsonString(p[f])]

JsonCounts(d) ==
  [k \in 1..Len(d) |-> [key |-> JsonString(d[k].key), value |-> d[k].value]]

JsonTaskInfo(info) ==
  [f \in DOMAIN info |->
     IF f \in {"system_levels", "fault_types"}
     THEN [k \in 1..Len(info[f]) |-> JsonString(info[f][k])]
     ELSE JsonString(info[f])]

\* json.dump(output, f, indent=2): the document as it stands in the file.
json_dump(output) ==
  [task_types |-> [k \in 1..Len(output.task_types) |->
                     [key   |-> JsonString(output.task_types[k].key),
                      value |-> JsonTaskInfo(output.task_types[k].value)]],
   problems   |-> [k \in 1..Len(output.problems) |-> JsonRecord(output.problems[k])],
   summary    |-> [total   |-> output.summary.total,
                   by_task |-> JsonCounts(output.summary.by_task),
                   by_app  |-> JsonCounts(output.summary.by_app)]]

\* What save_to_json writes: one document.
JsonWrites(problems, seed) == << json_dump(JsonOutput(problems, seed)) >>

-----------------------------------------------------------------------------
\* save_to_csv

\* The columns with task ahead of id.
FieldnamesTaskFirst ==
  <<"task", "id", "app", "namespace", "faulty_service",
    "fault_type", "fault_description", "workload",
    "expected_solution", "system_level", "fault_category", "deployment">>

fieldnames ==
  <<"id", "task", "app", "namespace", "faulty_service",
    "fault_type", "fault_description", "workload",
    "expected_solution", "system_level", "fault_category", "deployment">>

\* csv.writer, default dialect: a field holding the delimiter, the quote
\* character or a line break is quoted, its quote characters doubled.
DoubleQuotes(ps) ==
  Flatten([k \in 1..Len(ps) |->
             IF ps[k] = "\"" THEN <<"\"", "\"">> ELSE <<ps[k]>>])

\* A writer that never quotes (csv.QUOTE_NONE without an escape character).
CsvFieldUnquoted(s) == Pieces(s)

CsvField(s) ==
  LET ps == Pieces(s)
  IN  IF \E k \in 1..Len(ps) : ps[k] \in {",", "\"", "\r", "\n"}
      THEN <<"\"">> \o DoubleQuotes(ps) \o <<"\"">>
      ELSE ps

CsvJoin(fields) ==
  Flatten([k \in 1..Len(fields) |->
             IF k < Len(fields) THEN CsvField(fields[k]) \o <<",">>
             ELSE CsvField(fields[k])])

CsvLine(fields) == CsvJoin(fields) \o <<"\r\n">>

\* DictWriter._dict_to_list: a key outside fieldnames is an error, a missing
\* key is written as the empty string (restval).
WrongFields(p) == DOMAIN p \ {fieldnames[k] : k \in 1..Len(fieldnames)}

DictToList(p) ==
  [k \in 1..Len(fieldnames) |->
     IF fieldnames[k] \in DOMAIN p THEN p[fieldnames[k]] ELSE ""]

\* writer.writerows stopping at the first record that has a wrong field or
\* lacks one of the fieldnames.
RowsWritableWhenComplete(problems) ==
  LET bad == {k \in 1..Len(problems) :
                DOMAIN problems[k] # {fieldnames[c] : c \in 1..Len(fieldnames)}}
  IN  IF bad # {}
      THEN (CHOOSE k \in bad : \A j \in bad : k <= j) - 1
      ELSE Len(problems)

\* writer.writerows stops at the first record with a wrong field.
RowsWritable(problems) ==
  IF \E k \in 1..Len(problems) : WrongFields(problems[k]) # {}
  THEN (CHOOSE k \in 1..Len(problems) :
          /\ WrongFields(problems[k]) # {}
          /\ \A j \in 1..(k - 1) : WrongFields(problems[j]) = {}) - 1
  ELSE Len(problems)

CsvHeader == CsvLine(fieldnames)

CsvRows(problems) ==
  [k \in 1..RowsWritable(problems) |-> CsvLine(DictToList(problems[k]))]

\* What save_to_csv writes: the header, then one line per record.
CsvWrites(problems) == <<CsvHeader>> \o CsvRows(problems)

-----------------------------------------------------------------------------
\* save_to_txt

TxtHeader ==
  << <<Eq100, "\n">>,
     <<"AIOpsLab Problem Registry - Complete Details\n">>,
     <<Eq100, "\n\n">> >>

\* The lines of one task type entry.
TxtTaskType(task, info) ==
  << <<upper(task), ":\n">>,
     <<"  Description: ", info.description, "\n">>,
     <<"  Expected Solution Format: ", info.expected_solution_format, "\n">>,
     <<"  Metric: ", info.metric, "\n">> >>
  \o (IF "system_levels" \in DOMAIN info
      THEN << <<"  System Levels: ">> \o join(", ", info.system_levels) \o <<"\n">> >>
      ELSE <<>>)
  \o (IF "fault_types" \in DOMAIN info
      THEN << <<"  Fault Types: ">> \o join(", ", info.fault_types) \o <<"\n">> >>
      ELSE <<>>)
  \o << <<"\n">> >>

TxtTaskTypes ==
  << <<"TASK TYPES\n">>, <<Dash100, "\n\n">> >>
  \o Flatten([k \in 1..Len(TASK_TYPES) |->
                 TxtTaskType(TASK_TYPES[k].key, TASK_TYPES[k].value)])

\* The two markers the other way round.
DeployIconSwapped(p) == IF p["deployment"] = "docker" THEN "[K8s]" ELSE "[Docker]"

deploy_icon(p) == IF p["deployment"] = "docker" THEN "[Docker]" ELSE "[K8s]"

\* The block of one record, numbered i within its section.
TxtBlock(i, p) ==
  << <<Pad3(i), ". ", deploy_icon(p), " ", p["id"], "\n">>,
     <<"     |- Application:       ", p["app"], "\n">>,
     <<"     |- Namespace:         ", p["namespace"], "\n">>,
     <<"     |- Faulty Service:    ", p["faulty_service"], "\n">>,
     <<"     |- Fault Type:        ", p["fault_type"], "\n">>,
     <<"     |- Fault Description: ", p["fault_description"], "\n">>,
     <<"     |- Workload:          ", p["workload"], "\n">>,
     <<"     |- Expected Solution: ", p["expected_solution"], "\n">>,
     <<"     |- System Level:      ", p["system_level"], "\n">>,
     <<"     +- Fault Category:    ", p["fault_category"], "\n">>,
     <<"\n">> >>

\* The writes of one block: the head line, nine field lines, a blank line.
BlockWrites == 11

\* The blocks numbered 1, 2, ... but listed from the last record to the first.
TxtBlocksReversed(ps) ==
  [j \in 1..(BlockWrites * Len(ps)) |->
     LET i == ((j - 1) \div BlockWrites) + 1
     IN  TxtBlock(i, ps[Len(ps) + 1 - i])[((j - 1) % BlockWrites) + 1]]

\* enumerate(task_problems, 1): the blocks one after the other
TxtBlocks(ps) ==
  [j \in 1..(BlockWrites * Len(ps)) |->
     LET i == ((j - 1) \div BlockWrites) + 1
     IN  TxtBlock(i, ps[i])[((j - 1) % BlockWrites) + 1]]

\* A section that lists every record, whatever its task.
TxtSectionOfAll(problems, task_type) ==
  LET task_problems == Filter(problems, "task", task_type)
  IN  IF task_problems = <<>> THEN <<>>
      ELSE << <<"\n", Eq100, "\n">>,
              <<upper(task_type), " PROBLEMS (", ToString(Len(task_problems)), ")\n">>,
              <<Eq100, "\n\n">> >>
           \o TxtBlocks(problems)

\* The section of one task kind: nothing at all when no record has the kind.
TxtSection(problems, task_type) ==
  LET task_problems == Filter(problems, "task", task_type)
  IN  IF task_problems = <<>> THEN <<>>
      ELSE << <<"\n", Eq100, "\n">>,
              <<upper(task_type), " PROBLEMS (", ToString(Len(task_problems)), ")\n">>,
              <<Eq100, "\n\n">> >>
           \o TxtBlocks(task_problems)

TxtSections(problems) ==
  Flatten([k \in 1..Len(TaskOrder) |-> TxtSection(problems, TaskOrder[k])])

\* The tally lines without a line for the N/A sentinel.
TallyLinesWithoutNA(problems, field, keys) ==
  LET named == SelectSeq(keys, LAMBDA key : key # "N/A")
  IN  [k \in 1..Len(named) |->
         <<"  - ", named[k], ": ",
           ToString(Len(Filter(problems, field, named[k]))), "\n">>]

\* One "  - key: count" line per key.
TallyLines(problems, field, keys) ==
  [k \in 1..Len(keys) |->
     <<"  - ", keys[k], ": ", ToString(Len(Filter(problems, field, keys[k]))), "\n">>]

\* The By Task Type lines of the kinds that have records only.
TaskTallyLinesPresentOnly(problems) ==
  LET present == SelectSeq(TaskOrder, LAMBDA t : Filter(problems, "task", t) # <<>>)
  IN  [k \in 1..Len(present) |->
         <<"  - ", capitalize(present[k]), ": ",
           ToString(Len(Filter(problems, "task", present[k]))), "\n">>]

TaskTallyLines(problems) ==
  [k \in 1..Len(TaskOrder) |->
     <<"  - ", capitalize(TaskOrder[k]), ": ",
       ToString(Len(Filter(problems, "task", TaskOrder[k]))), "\n">>]

\* The Kubernetes line counting every record.
DeploymentTallyLinesAllK8s(problems) ==
  << <<"  - Kubernetes: ", ToString(Len(problems)), "\n">>,
     <<"  - Docker: ", ToString(Len(Filter(problems, "deployment", "docker"))), "\n">> >>

\* The two lines of the deployment split.
DeploymentTallyLines(problems) ==
  << <<"  - Kubernetes: ", ToString(Len(Filter(problems, "deployment", "k8s"))), "\n">>,
     <<"  - Docker: ", ToString(Len(Filter(problems, "deployment", "docker"))), "\n">> >>

TxtSummary(problems, seed) ==
  << <<"\n", Eq100, "\n">>,
     <<"SUMMARY\n">>,
     <<Eq100, "\n\n">>,
     <<"Total Problems: ", ToString(Len(problems)), "\n\n">>,
     <<"By Task Type:\n">> >>
  \o TaskTallyLines(problems)
  \o << <<"\nBy Application:\n">> >>
  \o TallyLines(problems, "app", SortedFieldValues(problems, "app", seed))
  \o << <<"\nBy System Level:\n">> >>
  \o TallyLines(problems, "system_level",
                SortedFieldValues(problems, "system_level", seed))
  \o << <<"\nBy Fault Category:\n">> >>
  \o TallyLines(problems, "fault_category",
                SortedFieldValues(problems, "fault_category", seed))
  \o << <<"\nBy Deployment:\n">> >>
  \o DeploymentTallyLines(problems)

\* What save_to_txt writes, one entry per f.write call.
TxtWrites(problems, seed) ==
  TxtHeader \o TxtTaskTypes \o TxtSections(problems)
    \o TxtSummary(problems, seed)

-----------------------------------------------------------------------------
\* print_summary

\* The heading, the total and the tally by task kind.
SummaryPrintsTasks(problems) ==
  << <<Eq70>>,
     <<"AIOpsLab Problem Registry">>,
     <<Eq70>>,
     <<"\nTotal: ", ToString(Len(problems)), " problems\n">>,
     <<"By Task Type:">> >>
  \o [k \in 1..Len(TaskOrder) |->
        <<"  - ", capitalize(TaskOrder[k]), ": ",
          ToString(Len(Filter(problems, "task", TaskOrder[k])))>>]

\* One "  - key: count" print per key.
TallyPrints(problems, field, keys) ==
  [k \in 1..Len(keys) |->
     <<"  - ", keys[k], ": ", ToString(Len(Filter(problems, field, keys[k])))>>]

\* The second tally taken over system_level.
SummaryPrintsGroupsByLevel(problems, seed) ==
  << <<"\nBy Application:">> >>
  \o TallyPrints(problems, "app", SortedFieldValues(problems, "app", seed))
  \o << <<"\nBy Fault Category:">> >>
  \o TallyPrints(problems, "system_level",
                 SortedFieldValues(problems, "system_level", seed))

\* The tallies by application and by fault category.
SummaryPrintsGroups(problems, seed) ==
  << <<"\nBy Application:">> >>
  \o TallyPrints(problems, "app", SortedFieldValues(problems, "app", seed))
  \o << <<"\nBy Fault Category:">> >>
  \o TallyPrints(problems, "fault_category",
                 SortedFieldValues(problems, "fault_category", seed))

SummaryPrints(problems, seed) ==
  SummaryPrintsTasks(problems) \o SummaryPrintsGroups(problems, seed)

Saved(filename) == <<"Saved to ", filename>>

-----------------------------------------------------------------------------
\* Files

JsonFileName == "problems.json"
CsvFileName == "problems.csv"
TxtFileName == "problems.txt"

FileNames == {"problems.json", "problems.csv", "problems.txt"}

NoFile == [exists |-> FALSE, data |-> <<>>]

\* open(filename, "w"): the file exists and is empty.
Opened(old) == [exists |-> TRUE, data |-> <<>>]

\* f.write, once per element of writes
Appended(file, writes) == [file EXCEPT !.data = @ \o writes]

\* with open(filename, "w") as f: ... run to its end
Written(old, writes) == Appended(Opened(old), writes)

Min(a, b) == IF a < b THEN a ELSE b

\* The same block ended by an I/O error: open raised and the file is as it
\* was, or a write raised and the file holds the writes made before it.
Failed(old, writes) ==
  {old} \cup { Appended(Opened(old), SubSeq(writes, 1, k)) :
                 k \in 0..Min(Len(writes) - 1, MaxFailPoint) }

-----------------------------------------------------------------------------
\* The exporters, each run from its first line to its last.

save_to_json(problems, filename) ==
  /\ files' = [files EXCEPT ![filename] = Written(@, JsonWrites(problems, hashseed))]
  /\ stdout' = Append(stdout, Saved(filename))

\* csv.DictWriter raises ValueError at the first record with a wrong field.
CsvRaises(problems) == RowsWritable(problems) < Len(problems)

save_to_csv(problems, filename) ==
  /\ files' = [files EXCEPT ![filename] = Written(@, CsvWrites(problems))]
  /\ stdout' = IF CsvRaises(problems) THEN stdout
               ELSE Append(stdout, Saved(filename))

save_to_txt(problems, filename) ==
  /\ files' = [files EXCEPT ![filename] = Written(@, TxtWrites(problems, hashseed))]
  /\ stdout' = Append(stdout, Saved(filename))

print_summary(problems) ==
  /\ stdout' = stdout \o SummaryPrints(problems, hashseed)
  /\ files' = files

\* An exporter ended by an I/O error: nothing is printed.
io_error(filename, writes) ==
  /\ \E f \in Failed(files[filename], writes) :
       files' = [files EXCEPT ![filename] = f]
  /\ stdout' = stdout

-----------------------------------------------------------------------------
\* The script, run as a program: the module body, then main().

\* The assignment made for every record, declared deployment or not.
WithDefaultAlways(p) ==
  [f \in DOMAIN p \cup {"deployment"} |->
     IF f = "deployment" THEN "k8s" ELSE p[f]]

WithDefault(p) ==
  IF "deployment" \notin DOMAIN p
  THEN [f \in DOMAIN p \cup {"deployment"} |->
          IF f = "deployment" THEN "k8s" ELSE p[f]]
  ELSE p

\* "for p in PROBLEMS": each record in turn, the list itself changed in place.
DefaultAll(problems) == [k \in 1..Len(problems) |-> WithDefault(problems[k])]

\* The loop of the module body, from its first iteration to its last.
DefaultDeployment ==
  /\ pc = "import"
  /\ idx <= Len(PROBLEMS)
  /\ PROBLEMS' = DefaultAll(PROBLEMS)
  /\ idx' = Len(PROBLEMS) + 1
  /\ UNCHANGED <<TASK_TYPES, pc, hashseed, files, stdout, run, tpc, ncalls, lastrun>>

\* main() called above the defaulting loop instead of below it.
CallMainBeforeDefaulting ==
  /\ pc = "import"
  /\ pc' = "main"
  /\ stdout' = Append(stdout, <<"Generating comprehensive problem list...\n">>)
  /\ UNCHANGED <<PROBLEMS, TASK_TYPES, idx, hashseed, files, run, tpc, ncalls, lastrun>>

\* The loop is over and __name__ is "__main__": main() is called.
CallMain ==
  /\ pc = "import"
  /\ idx > Len(PROBLEMS)
  /\ pc' = "main"
  /\ stdout' = Append(stdout, <<"Generating comprehensive problem list...\n">>)
  /\ UNCHANGED <<PROBLEMS, TASK_TYPES, idx, hashseed, files, run, tpc, ncalls, lastrun>>

MainSaveToJson ==
  /\ pc = "main"
  /\ save_to_json(PROBLEMS, JsonFileName)
  /\ pc' = "json_saved"
  /\ UNCHANGED <<PROBLEMS, TASK_TYPES, idx, hashseed, run, tpc, ncalls, lastrun>>

MainSaveToJsonFails ==
  /\ pc = "main"
  /\ io_error(JsonFileName, JsonWrites(PROBLEMS, hashseed))
  /\ pc' = "failed"
  /\ UNCHANGED <<PROBLEMS, TASK_TYPES, idx, hashseed, run, tpc, ncalls, lastrun>>

\* main going from the JSON export straight to the text export.
MainSkipCsv ==
  /\ pc = "json_saved"
  /\ pc' = "csv_saved"
  /\ UNCHANGED <<PROBLEMS, TASK_TYPES, idx, hashseed, files, stdout, run, tpc, ncalls, lastrun>>

MainSaveToCsv ==
  /\ pc = "json_saved"
  /\ save_to_csv(PROBLEMS, CsvFileName)
  /\ pc' = IF CsvRaises(PROBLEMS) THEN "failed" ELSE "csv_saved"
  /\ UNCHANGED <<PROBLEMS, TASK_TYPES, idx, hashseed, run, tpc, ncalls, lastrun>>

\* main catching the error of the CSV export and going on.
MainSaveToCsvFailsIgnored ==
  /\ pc = "json_saved"
  /\ io_error(CsvFileName, CsvWrites(PROBLEMS))
  /\ pc' = "csv_saved"
  /\ UNCHANGED <<PROBLEMS, TASK_TYPES, idx, hashseed, run, tpc, ncalls, lastrun>>

MainSaveToCsvFails ==
  /\ pc = "json_saved"
  /\ io_error(CsvFileName, CsvWrites(PROBLEMS))
  /\ pc' = "failed"
  /\ UNCHANGED <<PROBLEMS, TASK_TYPES, idx, hashseed, run, tpc, ncalls, lastrun>>

MainSaveToTxt ==
  /\ pc = "csv_saved"
  /\ save_to_txt(PROBLEMS, TxtFileName)
  /\ pc' = "txt_saved"
  /\ UNCHANGED <<PROBLEMS, TASK_TYPES, idx, hashseed, run, tpc, ncalls, lastrun>>

MainSaveToTxtFails ==
  /\ pc = "csv_saved"
  /\ io_error(TxtFileName, TxtWrites(PROBLEMS, hashseed))
  /\ pc' = "failed"
  /\ UNCHANGED <<PROBLEMS, TASK_TYPES, idx, hashseed, run, tpc, ncalls, lastrun>>

\* print() and print_summary(PROBLEMS)
MainPrintSummary ==
  /\ pc = "txt_saved"
  /\ stdout' = Append(stdout, <<"">>) \o SummaryPrints(PROBLEMS, hashseed)
  /\ pc' = "summary_printed"
  /\ UNCHANGED <<PROBLEMS, TASK_TYPES, idx, hashseed, files, run, tpc, ncalls, lastrun>>

Banner ==
  << <<"\n", Eq70>>,
     <<"Files created:">>,
     <<"  - problems.json (machine-readable with task type info)">>,
     <<"  - problems.csv  (spreadsheet-friendly)">>,
     <<"  - problems.txt  (human-readable detailed report)">>,
     <<Eq70>> >>

\* main blocking at the end, before its closing banner, and never returning.
MainBlocksBeforeBanner ==
  /\ pc = "summary_printed"
  /\ pc' = "summary_printed"
  /\ UNCHANGED <<PROBLEMS, TASK_TYPES, idx, hashseed, files, stdout, run, tpc, ncalls, lastrun>>

MainBanner ==
  /\ pc = "summary_printed"
  /\ stdout' = stdout \o Banner
  /\ pc' = "done"
  /\ UNCHANGED <<PROBLEMS, TASK_TYPES, idx, hashseed, files, run, tpc, ncalls, lastrun>>

\* The script is started again in the same directory: a new process, with its
\* own hash seed and its own module globals; the files are still there.
Rerun ==
  /\ pc \in {"done", "failed"}
  /\ run < MaxRuns
  /\ run' = run + 1
  /\ hashseed' \in 0..(NumSeeds - 1)
  /\ PROBLEMS' = PROBLEMS_at_import
  /\ TASK_TYPES' = TASK_TYPES_at_import
  /\ idx' = 1
  /\ pc' = "import"
  /\ stdout' = <<>>
  /\ lastrun' = [done |-> pc = "done", hashseed |-> hashseed, files |-> files]
  /\ UNCHANGED <<files, tpc, ncalls>>

\* Before the first invocation.
NoRun == [done |-> FALSE, hashseed |-> 0, files |-> [n \in FileNames |-> NoFile]]

Exporters == {"json", "csv", "txt", "summary"}

Init ==
  /\ PROBLEMS = PROBLEMS_at_import
  /\ TASK_TYPES = TASK_TYPES_at_import
  /\ pc = "import"
  /\ idx = 1
  /\ hashseed \in 0..(NumSeeds - 1)
  /\ files = [n \in FileNames |-> NoFile]
  /\ stdout = <<>>
  /\ run = 1
  /\ tpc = [t \in Exporters |-> 0]
  /\ ncalls = 0
  /\ lastrun = NoRun

Next ==
  \/ DefaultDeployment
  \/ CallMain
  \/ MainSaveToJson
  \/ MainSaveToJsonFails
  \/ MainSaveToCsv
  \/ MainSaveToCsvFails
  \/ MainSaveToTxt
  \/ MainSaveToTxtFails
  \/ MainPrintSummary
  \/ MainBanner
  \/ Rerun

Spec == Init /\ [][Next]_vars

\* A call of an exporter or of print_summary made by main returns or raises:
\* main goes on to its next statement, or ends with the error.  (The exporters
\* take no lock and wait for nothing but the writes themselves.)
CallReturns ==
  /\ pc \in {"main", "json_saved", "csv_saved", "txt_saved"}
  /\ pc' \in {"json_saved", "csv_saved", "txt_saved", "summary_printed", "failed"}

\* The runs of a process that is not suspended forever: the module body and
\* main are straight-line code of one thread, which the interpreter keeps
\* executing statement after statement, and no write is kept waiting forever.
\* Starting the script again is up to the user.
SpecRunning ==
  /\ Init /\ [][Next]_vars
  /\ WF_vars(DefaultDeployment)
  /\ WF_vars(CallMain)
  /\ WF_pc(CallReturns)
  /\ WF_vars(MainBanner)
-----------------------------------------------------------------------------
\* The exporters called by a caller of its own, over a list of its own, in any
\* order and any number of times (up to MaxCalls calls).

\* Records a caller's list is made of: one of each task kind, four apps, both
\* deployments.
SampleRecords ==
  { DefaultAll(RegistryLiteral)[k] : k \in {3, 14, 70, 88} }

RECURSIVE ListsUpTo(_)
ListsUpTo(n) ==
  IF n = 0 THEN { <<>> }
  ELSE LET shorter == ListsUpTo(n - 1)
       IN  shorter \cup { Append(l, r) : l \in {s \in shorter : Len(s) = n - 1},
                                         r \in SampleRecords }

CallerInit ==
  /\ PROBLEMS \in ListsUpTo(MaxLen) \cup { DefaultAll(PROBLEMS_at_import) }
  /\ TASK_TYPES = TASK_TYPES_at_import
  /\ pc = "caller"
  /\ idx = 1
  /\ hashseed \in 0..(NumSeeds - 1)
  /\ files = [n \in FileNames |-> NoFile]
  /\ stdout = <<>>
  /\ run = 1
  /\ tpc = [t \in Exporters |-> 0]
  /\ ncalls = 0
  /\ lastrun = NoRun

CallSaveToJson ==
  /\ pc = "caller"
  /\ ncalls < MaxCalls
  /\ save_to_json(PROBLEMS, JsonFileName)
  /\ ncalls' = ncalls + 1
  /\ UNCHANGED <<PROBLEMS, TASK_TYPES, pc, idx, hashseed, run, tpc, lastrun>>

CallSaveToCsv ==
  /\ pc = "caller"
  /\ ncalls < MaxCalls
  /\ save_to_csv(PROBLEMS, CsvFileName)
  /\ ncalls' = ncalls + 1
  /\ UNCHANGED <<PROBLEMS, TASK_TYPES, pc, idx, hashseed, run, tpc, lastrun>>

\* save_to_txt sorting the caller's list in place instead of filtering it.
CallSaveToTxtSortingInPlace ==
  /\ pc = "caller"
  /\ ncalls < MaxCalls
  /\ save_to_txt(PROBLEMS, TxtFileName)
  /\ PROBLEMS' = SortedByTask(PROBLEMS)
  /\ ncalls' = ncalls + 1
  /\ UNCHANGED <<TASK_TYPES, pc, idx, hashseed, run, tpc, lastrun>>

CallSaveToTxt ==
  /\ pc = "caller"
  /\ ncalls < MaxCalls
  /\ save_to_txt(PROBLEMS, TxtFileName)
  /\ ncalls' = ncalls + 1
  /\ UNCHANGED <<PROBLEMS, TASK_TYPES, pc, idx, hashseed, run, tpc, lastrun>>

CallPrintSummary ==
  /\ pc = "caller"
  /\ ncalls < MaxCalls
  /\ print_summary(PROBLEMS)
  /\ ncalls' = ncalls + 1
  /\ UNCHANGED <<PROBLEMS, TASK_TYPES, pc, idx, hashseed, run, tpc, lastrun>>

CallerNext ==
  \/ CallSaveToJson
  \/ CallSaveToCsv
  \/ CallSaveToTxt
  \/ CallPrintSummary

SpecCalls == CallerInit /\ [][CallerNext]_vars


-----------------------------------------------------------------------------
\* The exporters called over lists that break the conventions of the registry:
\* nothing in the exporters checks a record before it is used.

\* A record whose task is none of the four kinds.
UnknownTaskRecord == [DefaultAll(RegistryLiteral)[4] EXCEPT !.task = "mitigate"]

RECURSIVE ListsOver(_, _)
ListsOver(records, n) ==
  IF n = 0 THEN { <<>> }
  ELSE LET shorter == ListsOver(records, n - 1)
       IN  shorter \cup { Append(l, r) : l \in {s \in shorter : Len(s) = n - 1},
                                         r \in records }

\* A caller's list that holds the record of no kind at least once.
LooseInit ==
  /\ PROBLEMS \in { l \in ListsOver(SampleRecords \cup {UnknownTaskRecord}, MaxLen) :
                      \E k \in 1..Len(l) : l[k] = UnknownTaskRecord }
  /\ TASK_TYPES = TASK_TYPES_at_import
  /\ pc = "caller"
  /\ idx = 1
  /\ hashseed \in 0..(NumSeeds - 1)
  /\ files = [n \in FileNames |-> NoFile]
  /\ stdout = <<>>
  /\ run = 1
  /\ tpc = [t \in Exporters |-> 0]
  /\ ncalls = 0
  /\ lastrun = NoRun

SpecLooseCalls == LooseInit /\ [][CallerNext]_vars

-----------------------------------------------------------------------------
\* save_to_csv called over lists in which a record lacks one of the columns.

\* The record without one of its fields.
Without(p, field) == [f \in DOMAIN p \ {field} |-> p[f]]

\* A record as the registry literal declares it, with no deployment, and a
\* record without its workload.
IncompleteRecords ==
  { RegistryLiteral[41], Without(DefaultAll(RegistryLiteral)[14], "workload") }

CsvCallerInit ==
  /\ PROBLEMS \in { l \in ListsOver(SampleRecords \cup IncompleteRecords, MaxLen) :
                      \E k \in 1..Len(l) : l[k] \in IncompleteRecords }
  /\ TASK_TYPES = TASK_TYPES_at_import
  /\ pc = "caller"
  /\ idx = 1
  /\ hashseed \in 0..(NumSeeds - 1)
  /\ files = [n \in FileNames |-> NoFile]
  /\ stdout = <<>>
  /\ run = 1
  /\ tpc = [t \in Exporters |-> 0]
  /\ ncalls = 0
  /\ lastrun = NoRun

SpecCsvCalls == CsvCallerInit /\ [][CallSaveToCsv]_vars
-----------------------------------------------------------------------------
\* The three exports and the summary print over the registry, started in any
\* order and run a step at a time, the steps of one between the steps of the
\* others.  tpc[t] counts the steps exporter t has made.

InterleavedInit ==
  /\ PROBLEMS = DefaultAll(PROBLEMS_at_import)
  /\ TASK_TYPES = TASK_TYPES_at_import
  /\ pc = "interleaved"
  /\ idx = Len(PROBLEMS) + 1
  /\ hashseed \in 0..(NumSeeds - 1)
  /\ files = [n \in FileNames |-> NoFile]
  /\ stdout = <<>>
  /\ run = 1
  /\ tpc = [t \in Exporters |-> 0]
  /\ ncalls = 0
  /\ lastrun = NoRun

\* open(filename, "w") by exporter t
StepOpen(t, filename) ==
  /\ pc = "interleaved"
  /\ tpc[t] = 0
  /\ files' = [files EXCEPT ![filename] = Opened(@)]
  /\ tpc' = [tpc EXCEPT ![t] = 1]
  /\ UNCHANGED <<PROBLEMS, TASK_TYPES, pc, idx, hashseed, stdout, run, ncalls, lastrun>>

\* the writes of step n of exporter t
StepWrite(t, n, filename, writes) ==
  /\ pc = "interleaved"
  /\ tpc[t] = n
  /\ files' = [files EXCEPT ![filename] = Appended(@, writes)]
  /\ tpc' = [tpc EXCEPT ![t] = n + 1]
  /\ UNCHANGED <<PROBLEMS, TASK_TYPES, pc, idx, hashseed, stdout, run, ncalls, lastrun>>

\* the prints of step n of exporter t
StepPrint(t, n, prints) ==
  /\ pc = "interleaved"
  /\ tpc[t] = n
  /\ stdout' = stdout \o prints
  /\ tpc' = [tpc EXCEPT ![t] = n + 1]
  /\ UNCHANGED <<PROBLEMS, TASK_TYPES, pc, idx, hashseed, files, run, ncalls, lastrun>>

JsonOpen == StepOpen("json", JsonFileName)
JsonDump == StepWrite("json", 1, JsonFileName, JsonWrites(PROBLEMS, hashseed))
JsonSaved == StepPrint("json", 2, <<Saved(JsonFileName)>>)

CsvOpen == StepOpen("csv", CsvFileName)
CsvWriteHeader == StepWrite("csv", 1, CsvFileName, <<CsvHeader>>)
CsvWriteRows == StepWrite("csv", 2, CsvFileName, CsvRows(PROBLEMS))
CsvSaved ==
  StepPrint("csv", 3, IF CsvRaises(PROBLEMS) THEN <<>> ELSE <<Saved(CsvFileName)>>)

TxtOpen == StepOpen("txt", TxtFileName)
TxtWriteHeader == StepWrite("txt", 1, TxtFileName, TxtHeader \o TxtTaskTypes)
\* The sections step sorting the registry in place before it writes.
TxtWriteSectionsSortingInPlace ==
  /\ pc = "interleaved"
  /\ tpc["txt"] = 2
  /\ PROBLEMS' = SortedByTask(PROBLEMS)
  /\ files' = [files EXCEPT ![TxtFileName] = Appended(@, TxtSections(PROBLEMS))]
  /\ tpc' = [tpc EXCEPT !["txt"] = 3]
  /\ UNCHANGED <<TASK_TYPES, pc, idx, hashseed, stdout, run, ncalls, lastrun>>

TxtWriteSections == StepWrite("txt", 2, TxtFileName, TxtSections(PROBLEMS))
TxtWriteSummary == StepWrite("txt", 3, TxtFileName, TxtSummary(PROBLEMS, hashseed))
TxtSaved == StepPrint("txt", 4, <<Saved(TxtFileName)>>)

SummaryTasks == StepPrint("summary", 0, SummaryPrintsTasks(PROBLEMS))
SummaryGroups == StepPrint("summary", 1, SummaryPrintsGroups(PROBLEMS, hashseed))

\* The step count at which each exporter has returned.
LastStep ==
  [t \in Exporters |->
     CASE t = "json" -> 3 [] t = "csv" -> 4 [] t = "txt" -> 5 [] t = "summary" -> 2]

InterleavedNext ==
  \/ JsonOpen
  \/ JsonDump
  \/ JsonSaved
  \/ CsvOpen
  \/ CsvWriteHeader
  \/ CsvWriteRows
  \/ CsvSaved
  \/ TxtOpen
  \/ TxtWriteHeader
  \/ TxtWriteSections
  \/ TxtWriteSummary
  \/ TxtSaved
  \/ SummaryTasks
  \/ SummaryGroups

SpecAnyOrder == InterleavedInit /\ [][InterleavedNext]_vars

-----------------------------------------------------------------------------
\* Properties.

\* Reading problems.json back.
JsonWritten ==
  /\ files[JsonFileName].exists
  /\ Len(files[JsonFileName].data) = 1

JsonDoc == files[JsonFileName].data[1]

RECURSIVE SumCounts(_)
SumCounts(d) == IF d = <<>> THEN 0 ELSE Head(d).value + SumCounts(Tail(d))

TaskKinds == {"detection", "localization", "analysis", "mitigation"}

\* C1: no two records of the registry PROBLEMS have the same id.
C1_UniqueIds ==
  \A i, j \in 1..Len(PROBLEMS) : i # j => PROBLEMS[i].id # PROBLEMS[j].id

\* main has run over a registry of many records.
C1_Witness == pc = "done" /\ Len(PROBLEMS) > 2

\* C2: every record of the registry has one of the four recognized task kinds.
C2_TasksRecognized ==
  \A i \in 1..Len(PROBLEMS) : PROBLEMS[i].task \in TaskKinds

\* main has run over a registry in which each of the four kinds occurs.
C2_Witness ==
  /\ pc = "done"
  /\ \A t \in TaskKinds : \E i \in 1..Len(PROBLEMS) : PROBLEMS[i].task = t

\* C3: in problems.json written over the registry, the four by_task counts sum
\* to summary.total, and summary.total is the number of records.
C3_ByTaskSumsToTotal ==
  JsonWritten =>
    /\ Len(JsonDoc.summary.by_task) = 4
    /\ SumCounts(JsonDoc.summary.by_task) = JsonDoc.summary.total
    /\ JsonDoc.summary.total = Len(PROBLEMS)

\* save_to_json has just returned, with records counted under several kinds.
C3_Witness ==
  /\ pc = "json_saved"
  /\ JsonWritten
  /\ JsonDoc.summary.total > 0
  /\ \A k \in 1..4 : JsonDoc.summary.by_task[k].value > 0


\* C4: after save_to_json over any sequence of records, the by_app counts of
\* the summary sum to summary.total.
C4_ByAppSumsToTotal ==
  JsonWritten => SumCounts(JsonDoc.summary.by_app) = JsonDoc.summary.total

\* save_to_json has run over a list with several apps and more records than
\* apps.
C4_Witness ==
  /\ pc = "caller"
  /\ JsonWritten
  /\ Len(JsonDoc.summary.by_app) > 1
  /\ JsonDoc.summary.total > Len(JsonDoc.summary.by_app)

-----------------------------------------------------------------------------
\* Reading the files back.

\* json.load of a string: the quotes removed, the escapes undone.
JsonDecode(js) ==
  LET inner == SubSeq(js, 2, Len(js) - 1)
      \* the backslashes that stand immediately before position k
      Run(k) == LET others == {j \in 1..(k - 1) : inner[j] # "\\"}
                    last   == IF others = {} THEN 0
                              ELSE CHOOSE j \in others : \A i \in others : i <= j
                IN  k - 1 - last
      Introduces(k) == inner[k] = "\\" /\ Run(k) % 2 = 0
      Escaped(k)    == k > 1 /\ Introduces(k - 1)
  IN  Flatten([k \in 1..Len(inner) |->
                 IF Escaped(k)
                 THEN CASE inner[k] = "n" -> <<"\n">>
                        [] inner[k] = "r" -> <<"\r">>
                        [] OTHER          -> <<inner[k]>>
                 ELSE IF Introduces(k) THEN <<>>
                 ELSE <<inner[k]>>])

LineEnds == {"\r\n", "\r", "\n"}

\* csv.reader, default dialect, one character (or run of ordinary characters)
\* at a time.  st.mode is the reader's state: at the start of a field, in an
\* unquoted field, in a quoted field, or just after a quote in a quoted field.
CsvEndField(st) == [st EXCEPT !.row = Append(@, st.field), !.field = <<>>,
                              !.mode = "start"]

CsvEndRow(st) == [st EXCEPT !.rows = Append(@, Append(st.row, st.field)),
                            !.row = <<>>, !.field = <<>>, !.mode = "start"]

CsvReaderStep(st, c) ==
  CASE st.mode = "start" ->
         IF c = "\"" THEN [st EXCEPT !.mode = "quoted"]
         ELSE IF c = "," THEN CsvEndField(st)
         ELSE IF c \in LineEnds
              THEN (IF st.row = <<>> THEN st ELSE CsvEndRow(st))
         ELSE [st EXCEPT !.field = <<c>>, !.mode = "unquoted"]
    [] st.mode = "unquoted" ->
         IF c = "," THEN CsvEndField(st)
         ELSE IF c \in LineEnds THEN CsvEndRow(st)
         ELSE [st EXCEPT !.field = Append(@, c)]
    [] st.mode = "quoted" ->
         IF c = "\"" THEN [st EXCEPT !.mode = "quote"]
         ELSE [st EXCEPT !.field = Append(@, c)]
    [] st.mode = "quote" ->
         IF c = "\"" THEN [st EXCEPT !.field = Append(@, c), !.mode = "quoted"]
         ELSE IF c = "," THEN CsvEndField(st)
         ELSE IF c \in LineEnds THEN CsvEndRow(st)
         ELSE [st EXCEPT !.field = Append(@, c), !.mode = "unquoted"]

\* The reader run over chars[lo..hi], by halves.
RECURSIVE CsvReaderRun(_, _, _, _)
CsvReaderRun(st, chars, lo, hi) ==
  IF lo > hi THEN st
  ELSE IF lo = hi THEN CsvReaderStep(st, chars[lo])
  ELSE LET mid  == (lo + hi) \div 2
           left == CsvReaderRun(st, chars, lo, mid)
       IN  IF left.mode = "" THEN left
           ELSE CsvReaderRun(left, chars, mid + 1, hi)

\* The rows csv.reader yields for a file.
CsvRead(file) ==
  LET chars == Flatten(file.data)
      st    == CsvReaderRun([rows |-> <<>>, row |-> <<>>, field |-> <<>>,
                             mode |-> "start"], chars, 1, Len(chars))
  IN  IF st.mode = "start" /\ st.row = <<>> THEN st.rows
      ELSE CsvEndRow(st).rows

CsvExported == pc \in {"csv_saved", "txt_saved", "summary_printed", "done"}

\* C5: the rows read back from problems.csv are a header of the twelve column
\* names and then, record for record and in the order of the problems array of
\* problems.json, the same value in each of the twelve columns.
C5_CsvRoundTrip ==
  CsvExported =>
    LET rows    == CsvRead(files[CsvFileName])
        records == JsonDoc.problems
    IN  /\ Len(rows) = Len(records) + 1
        /\ rows[1] = [c \in 1..Len(fieldnames) |-> Pieces(fieldnames[c])]
        /\ \A i \in 1..Len(records) :
             /\ Len(rows[i + 1]) = Len(fieldnames)
             /\ \A c \in 1..Len(fieldnames) :
                  rows[i + 1][c] = JsonDecode(records[i][fieldnames[c]])

\* Both files are written, over the whole registry, and a value that the csv
\* writer had to quote (it holds a comma and a quote character) is among them.
C5_Witness ==
  /\ pc = "csv_saved"
  /\ JsonWritten
  /\ Len(JsonDoc.problems) = Len(PROBLEMS_at_import)
  /\ \E i \in 1..Len(PROBLEMS) :
       /\ \E k \in 1..Len(Pieces(PROBLEMS[i].expected_solution)) :
            Pieces(PROBLEMS[i].expected_solution)[k] = ","
       /\ \E k \in 1..Len(Pieces(PROBLEMS[i].expected_solution)) :
            Pieces(PROBLEMS[i].expected_solution)[k] = "\""
       /\ Len(files[CsvFileName].data) = Len(PROBLEMS) + 1

\* The lines of the text report that open a task section, open a record block,
\* open the summary.
IsSectionHeader(w) == Len(w) = 4 /\ w[2] = " PROBLEMS (" /\ w[4] = ")\n"

IsBlockHead(w) == Len(w) = 6 /\ w[2] = ". " /\ w[3] \in {"[Docker]", "[K8s]"}

IsSummaryStart(w) == w = <<"SUMMARY\n">>

TxtLines == files[TxtFileName].data

\* The section headers of a task kind, and the record blocks between the
\* header at h and the next section header or the summary.
SectionHeaders(kind) ==
  {h \in 1..Len(TxtLines) :
     IsSectionHeader(TxtLines[h]) /\ TxtLines[h][1] = upper(kind)}

SectionEnd(h) ==
  LET later == {j \in (h + 1)..Len(TxtLines) :
                  IsSectionHeader(TxtLines[j]) \/ IsSummaryStart(TxtLines[j])}
  IN  IF later = {} THEN Len(TxtLines) + 1
      ELSE CHOOSE j \in later : \A i \in later : j <= i

BlocksUnder(h) ==
  {j \in (h + 1)..(SectionEnd(h) - 1) : IsBlockHead(TxtLines[j])}

\* C6: for each of the four task kinds, the record blocks listed under the
\* kind's section of the text report, and the count in the section header,
\* are as many as the kind's by_task count in the summary of problems.json
\* written over the same records; a kind with no section has by_task count 0.
C6_TxtBlocksMatchByTask ==
  (pc = "caller" /\ JsonWritten /\ files[TxtFileName].exists) =>
    /\ Len(JsonDoc.summary.by_task) = 4
    /\ \A k \in 1..Len(JsonDoc.summary.by_task) :
         LET kind    == JsonDecode(JsonDoc.summary.by_task[k].key)[1]
             count   == JsonDoc.summary.by_task[k].value
             headers == SectionHeaders(kind)
         IN  IF headers = {} THEN count = 0
             ELSE /\ Cardinality(headers) = 1
                  /\ \A h \in headers :
                       /\ Cardinality(BlocksUnder(h)) = count
                       /\ TxtLines[h][3] = ToString(count)

\* Both files are written over a list with two records of one kind and none
\* of another.
C6_Witness ==
  /\ pc = "caller"
  /\ JsonWritten
  /\ files[TxtFileName].exists
  /\ \E k \in 1..4 : JsonDoc.summary.by_task[k].value = 2
  /\ \E k \in 1..4 : JsonDoc.summary.by_task[k].value = 0
  /\ \E k \in 1..4 : SectionHeaders(TaskOrder[k]) = {}
  /\ \E k \in 1..4 : \E h \in SectionHeaders(TaskOrder[k]) :
                       Cardinality(BlocksUnder(h)) = 2

\* C7: two runs of the program over the unchanged registry leave identical
\* contents in problems.json, problems.csv and problems.txt: the same records
\* in the same order, the same grouping keys in the same order, the same
\* counts.
C7_Deterministic ==
  (pc = "done" /\ run > 1 /\ lastrun.done) =>
    \A n \in FileNames : files[n] = lastrun.files[n]

\* Two complete runs, under different hash seeds, the three files written.
C7_Witness ==
  /\ pc = "done"
  /\ run > 1
  /\ lastrun.done
  /\ lastrun.hashseed # hashseed
  /\ \A n \in FileNames : files[n].exists /\ files[n].data # <<>>
  /\ Len(JsonDoc.summary.by_app) > 1

\* C8: save_to_json, save_to_csv, save_to_txt and print_summary only read
\* their input: no call of them changes the list PROBLEMS (its length, its
\* order, any field of any record) or the table TASK_TYPES.
C8_ExportersOnlyRead ==
  [][PROBLEMS' = PROBLEMS /\ TASK_TYPES' = TASK_TYPES]_vars

\* Calls have been made, a file written among them, over a list that is not
\* in section order (sorting it would have changed it).
C8_Witness ==
  /\ pc = "caller"
  /\ ncalls = MaxCalls
  /\ files[TxtFileName].exists
  /\ Len(PROBLEMS) > 1
  /\ PROBLEMS # SortedByTask(PROBLEMS)

\* The registry as the module body leaves it, and what the sequential run of
\* main leaves in each file.
Registry == DefaultAll(PROBLEMS_at_import)

Reference ==
  [n \in FileNames |->
     CASE n = JsonFileName -> Written(NoFile, JsonWrites(Registry, hashseed))
       [] n = CsvFileName  -> Written(NoFile, CsvWrites(Registry))
       [] n = TxtFileName  -> Written(NoFile, TxtWrites(Registry, hashseed))]

AllReturned == \A t \in Exporters : tpc[t] = LastStep[t]

\* C9: the three exports and the summary print, run over the registry with the
\* three file names in any order or with their steps interleaved, leave in
\* problems.json, problems.csv and problems.txt what the sequential run leaves.
C9_OrderIndependent ==
  (pc = "interleaved" /\ AllReturned) => \A n \in FileNames : files[n] = Reference[n]

\* All four have returned after an interleaved run: the summary print began
\* first, the text export returned before the summary print went on, and the
\* JSON export returned last.
C9_Witness ==
  /\ pc = "interleaved"
  /\ AllReturned
  /\ LET n1 == Len(SummaryPrintsTasks(PROBLEMS))
     IN  /\ SubSeq(stdout, 1, n1) = SummaryPrintsTasks(PROBLEMS)
         /\ stdout[n1 + 1] = Saved(TxtFileName)
         /\ stdout[Len(stdout)] = Saved(JsonFileName)

\* What main has printed when it stands at each of its stages.
Generating == << <<"Generating comprehensive problem list...\n">> >>

MainStdout(stage) ==
  CASE stage = "main"            -> Generating
    [] stage = "json_saved"      -> Generating \o <<Saved(JsonFileName)>>
    [] stage = "csv_saved"       -> Generating \o <<Saved(JsonFileName), Saved(CsvFileName)>>
    [] stage = "txt_saved"       -> Generating \o <<Saved(JsonFileName), Saved(CsvFileName),
                                                    Saved(TxtFileName)>>
    [] stage = "summary_printed" -> Generating \o <<Saved(JsonFileName), Saved(CsvFileName),
                                                    Saved(TxtFileName), <<"">> >>
                                      \o SummaryPrints(PROBLEMS, hashseed)
    [] stage = "done"            -> Generating \o <<Saved(JsonFileName), Saved(CsvFileName),
                                                    Saved(TxtFileName), <<"">> >>
                                      \o SummaryPrints(PROBLEMS, hashseed) \o Banner

MainStages == {"main", "json_saved", "csv_saved", "txt_saved", "summary_printed", "done"}

\* C10: in a run of main with no I/O failure the three exports are performed,
\* JSON, then CSV, then text, the console summary is printed after the text
\* export and the closing banner last: at each stage main has printed exactly
\* the lines of the stages before it, in that order, and the files of the
\* exports made so far hold the whole registry.
C10_MainOrder ==
  pc \in MainStages =>
    /\ stdout = MainStdout(pc)
    /\ pc # "main" =>
         files[JsonFileName] = Written(NoFile, JsonWrites(PROBLEMS, hashseed))
    /\ pc \notin {"main", "json_saved"} =>
         files[CsvFileName] = Written(NoFile, CsvWrites(PROBLEMS))
    /\ pc \notin {"main", "json_saved", "csv_saved"} =>
         files[TxtFileName] = Written(NoFile, TxtWrites(PROBLEMS, hashseed))
    /\ pc = "done" =>
         /\ Len(JsonDoc.problems) = Len(PROBLEMS_at_import)
         /\ Len(files[CsvFileName].data) = Len(PROBLEMS_at_import) + 1
         /\ SubSeq(stdout, Len(stdout) - Len(Banner) + 1, Len(stdout)) = Banner

\* main has run to its end in the first run, without a failure.
C10_Witness ==
  /\ pc = "done"
  /\ run = 1
  /\ \A n \in FileNames : files[n].exists
  /\ stdout[Len(stdout)] = <<Eq70>>

-----------------------------------------------------------------------------
\* An export of main that returns prints its "Saved to" line; one that raises
\* prints nothing.
ExportRaised == pc \in {"main", "json_saved", "csv_saved"} /\ stdout' = stdout

\* C11: an I/O failure in an export of main is fatal.  The export that raises
\* ends the run in the failed state; in that state only the lines of the
\* exports made before it are printed (no console summary, no banner), the
\* files of the later exports are as they were before the run, and the process
\* does nothing more: the next step is a new invocation.
C11_FailureIsFatal ==
  [][ /\ ExportRaised => pc' = "failed"
      /\ pc' = "failed" =>
           /\ Len(stdout') \in 1..3
           /\ stdout' = SubSeq(MainStdout("txt_saved"), 1, Len(stdout'))
           /\ Len(stdout') = 1 => files'[CsvFileName] = lastrun.files[CsvFileName]
           /\ Len(stdout') <= 2 => files'[TxtFileName] = lastrun.files[TxtFileName]
      /\ pc = "failed" =>
           /\ pc' = "import"
           /\ run' = run + 1
           /\ files' = files
           /\ stdout' = <<>> ]_vars

\* The CSV export of the first run failed after its header was written:
\* problems.json is whole, problems.csv is cut short, problems.txt is absent.
C11_Witness ==
  /\ pc = "failed"
  /\ run = 1
  /\ Len(stdout) = 2
  /\ JsonWritten
  /\ files[CsvFileName].exists
  /\ Len(files[CsvFileName].data) = 1
  /\ ~files[TxtFileName].exists

-----------------------------------------------------------------------------
\* The calls of a caller: what the files hold against the list passed.

FourKinds == <<"detection", "localization", "analysis", "mitigation">>

\* The records of the list with a given value in a given field.
Matching(field, value) == {i \in 1..Len(PROBLEMS) : PROBLEMS[i][field] = value}

\* C12: for any list of records, the empty one included, by_task of
\* problems.json has exactly the four keys detection, localization, analysis,
\* mitigation, each mapped to the number of records with that task, 0 when
\* there is none.
C12_ByTaskFourKeys ==
  (pc = "caller" /\ JsonWritten) =>
    /\ Len(JsonDoc.summary.by_task) = Len(FourKinds)
    /\ \A k \in 1..Len(FourKinds) :
         /\ JsonDecode(JsonDoc.summary.by_task[k].key) = <<FourKinds[k]>>
         /\ JsonDoc.summary.by_task[k].value = Cardinality(Matching("task", FourKinds[k]))

\* save_to_json has run over the empty list.
C12_Witness ==
  /\ pc = "caller"
  /\ PROBLEMS = <<>>
  /\ JsonWritten
  /\ \A k \in 1..Len(JsonDoc.summary.by_task) : JsonDoc.summary.by_task[k].value = 0

\* C13: for any list of records, by_app of problems.json has exactly one key
\* per app present in the list, the keys in ascending order, each mapped to
\* the number of records, of every task kind, with that app.
C13_ByAppSortedExact ==
  (pc = "caller" /\ JsonWritten) =>
    LET by_app == JsonDoc.summary.by_app
        key(k) == JsonDecode(by_app[k].key)[1]
    IN  /\ \A k \in 1..Len(by_app) : Len(JsonDecode(by_app[k].key)) = 1
        /\ {key(k) : k \in 1..Len(by_app)} = {PROBLEMS[i].app : i \in 1..Len(PROBLEMS)}
        /\ \A k \in 1..(Len(by_app) - 1) : StrLess(key(k), key(k + 1))
        /\ \A k \in 1..Len(by_app) :
             /\ by_app[k].value = Cardinality(Matching("app", key(k)))
             /\ by_app[k].value > 0

\* save_to_json has run, under a hash seed that yields the apps in descending
\* order, over a list of three apps where one app has records of two kinds.
C13_Witness ==
  /\ pc = "caller"
  /\ JsonWritten
  /\ hashseed = 1
  /\ Len(JsonDoc.summary.by_app) > 2
  /\ \E i, j \in 1..Len(PROBLEMS) :
       PROBLEMS[i].app = PROBLEMS[j].app /\ PROBLEMS[i].task # PROBLEMS[j].task

Columns ==
  <<"id", "task", "app", "namespace", "faulty_service", "fault_type",
    "fault_description", "workload", "expected_solution", "system_level",
    "fault_category", "deployment">>

\* C14: problems.csv holds one header row and then one row per record, in the
\* order of the list (rows = records + 1); the header is the twelve column
\* names id, task, app, namespace, faulty_service, fault_type,
\* fault_description, workload, expected_solution, system_level,
\* fault_category, deployment, and every row holds the record's values in
\* that order.
C14_CsvHeaderAndRows ==
  (pc = "caller" /\ files[CsvFileName].exists) =>
    LET rows == CsvRead(files[CsvFileName])
    IN  /\ Len(files[CsvFileName].data) = Len(PROBLEMS) + 1
        /\ Len(rows) = Len(PROBLEMS) + 1
        /\ rows[1] = [c \in 1..Len(Columns) |-> <<Columns[c]>>]
        /\ \A i \in 1..Len(PROBLEMS) :
             rows[i + 1] = [c \in 1..Len(Columns) |-> Pieces(PROBLEMS[i][Columns[c]])]

\* save_to_csv has run over the whole registry.
C14_Witness ==
  /\ pc = "caller"
  /\ files[CsvFileName].exists
  /\ Len(PROBLEMS) = Len(PROBLEMS_at_import)
  /\ Len(files[CsvFileName].data) = Len(PROBLEMS_at_import) + 1
  /\ PROBLEMS[1].id # PROBLEMS[2].id

\* C15: the problems array of problems.json is the whole list in its order:
\* as long as the list passed, its i-th element holding the twelve field
\* values of the i-th record and no other field.
C15_ProblemsArrayIsTheList ==
  (pc = "caller" /\ JsonWritten) =>
    /\ Len(JsonDoc.problems) = Len(PROBLEMS)
    /\ \A i \in 1..Len(PROBLEMS) :
         /\ DOMAIN JsonDoc.problems[i] = {Columns[c] : c \in 1..Len(Columns)}
         /\ \A c \in 1..Len(Columns) :
              JsonDecode(JsonDoc.problems[i][Columns[c]]) = Pieces(PROBLEMS[i][Columns[c]])

\* save_to_json has run over the whole registry, whose records are not in
\* section order and hold values with quote characters.
C15_Witness ==
  /\ pc = "caller"
  /\ JsonWritten
  /\ Len(JsonDoc.problems) = Len(PROBLEMS_at_import)
  /\ PROBLEMS # SortedByTask(PROBLEMS)
  /\ \E i \in 1..Len(PROBLEMS) :
       \E k \in 1..Len(Pieces(PROBLEMS[i].expected_solution)) :
         Pieces(PROBLEMS[i].expected_solution)[k] = "\""

-----------------------------------------------------------------------------
\* C16: once the defaulting loop of the module body has run, every record of
\* the registry has a deployment, k8s or docker: k8s where the record declares
\* none, docker still where the record declares docker.
C16_DeploymentDefaulted ==
  (pc # "caller" /\ pc # "interleaved" /\ idx > Len(PROBLEMS)) =>
    /\ Len(PROBLEMS) = Len(RegistryLiteral)
    /\ \A i \in 1..Len(PROBLEMS) :
         /\ "deployment" \in DOMAIN PROBLEMS[i]
         /\ PROBLEMS[i].deployment \in {"k8s", "docker"}
         /\ "deployment" \notin DOMAIN RegistryLiteral[i] => PROBLEMS[i].deployment = "k8s"
         /\ ("deployment" \in DOMAIN RegistryLiteral[i]
               /\ RegistryLiteral[i].deployment = "docker")
              => PROBLEMS[i].deployment = "docker"

\* The loop has run and main has begun: a record that declared no deployment
\* has k8s, a record that declared docker has docker.
C16_Witness ==
  /\ pc = "main"
  /\ idx > Len(PROBLEMS)
  /\ \E i \in 1..Len(PROBLEMS) :
       "deployment" \notin DOMAIN RegistryLiteral[i] /\ PROBLEMS[i].deployment = "k8s"
  /\ \E i \in 1..Len(PROBLEMS) :
       /\ "deployment" \in DOMAIN RegistryLiteral[i]
       /\ RegistryLiteral[i].deployment = "docker"
       /\ PROBLEMS[i].deployment = "docker"

-----------------------------------------------------------------------------
\* The text report against the list passed.

TxtWritten == pc = "caller" /\ files[TxtFileName].exists

\* The records of a task kind, in the order of the list.
RecordsOfKind(kind) == SelectSeq(PROBLEMS, LAMBDA p : p.task = kind)

\* The place of the block at line j among the blocks of a section.
RankIn(blocks, j) == Cardinality({i \in blocks : i <= j})

AllBlockHeads == {j \in 1..Len(TxtLines) : IsBlockHead(TxtLines[j])}

\* C17: in the listing of the text report the blocks go by task kind in the
\* order detection, localization, analysis, mitigation (the section of an
\* earlier kind, with all its blocks, stands before the section of a later
\* one), and within a section the blocks are those of the kind's records in
\* the order of the list, numbered 1, 2, ..., n.
C17_TxtBlockOrder ==
  TxtWritten =>
    /\ \A k \in 1..Len(FourKinds) :
         LET recs == RecordsOfKind(FourKinds[k])
             hs   == SectionHeaders(FourKinds[k])
         IN  IF recs = <<>> THEN hs = {}
             ELSE /\ Cardinality(hs) = 1
                  /\ \A h \in hs :
                       LET blocks == BlocksUnder(h)
                       IN  /\ Cardinality(blocks) = Len(recs)
                           /\ \A j \in blocks :
                                /\ TxtLines[j][1] = Pad3(RankIn(blocks, j))
                                /\ TxtLines[j][5] = recs[RankIn(blocks, j)].id
    /\ \A k1, k2 \in 1..Len(FourKinds) :
         k1 < k2 =>
           \A h1 \in SectionHeaders(FourKinds[k1]), h2 \in SectionHeaders(FourKinds[k2]) :
             h1 < h2 /\ \A j \in BlocksUnder(h1) : j < h2
    /\ \A j \in AllBlockHeads :
         \E k \in 1..Len(FourKinds) :
           \E h \in SectionHeaders(FourKinds[k]) : j \in BlocksUnder(h)

\* save_to_txt has run over the whole registry: the four sections are there,
\* each with several records, and the list is not in section order.
C17_Witness ==
  /\ TxtWritten
  /\ Len(PROBLEMS) = Len(PROBLEMS_at_import)
  /\ PROBLEMS # SortedByTask(PROBLEMS)
  /\ \A k \in 1..Len(FourKinds) :
       \E h \in SectionHeaders(FourKinds[k]) : Cardinality(BlocksUnder(h)) > 2

\* C18: the marker of a record block of the text report tells docker from
\* k8s: the block shows [Docker] exactly when the deployment of its record is
\* docker, and [K8s] exactly when it is k8s.
C18_DeploymentMarker ==
  TxtWritten =>
    \A k \in 1..Len(FourKinds) :
      \A h \in SectionHeaders(FourKinds[k]) :
        LET blocks == BlocksUnder(h)
            recs   == RecordsOfKind(FourKinds[k])
        IN  \A j \in blocks :
              LET p == recs[RankIn(blocks, j)]
              IN  /\ TxtLines[j][3] = "[Docker]" <=> p.deployment = "docker"
                  /\ TxtLines[j][3] = "[K8s]" <=> p.deployment = "k8s"

\* save_to_txt has run over a list with a docker record and a k8s record:
\* a block with each marker is in the report.
C18_Witness ==
  /\ TxtWritten
  /\ \E i \in 1..Len(PROBLEMS) : PROBLEMS[i].deployment = "docker"
  /\ \E i \in 1..Len(PROBLEMS) : PROBLEMS[i].deployment = "k8s"
  /\ \E j \in AllBlockHeads : TxtLines[j][3] = "[Docker]"
  /\ \E j \in AllBlockHeads : TxtLines[j][3] = "[K8s]"

\* The number a line of the report shows, -1 when it is no count of records.
CountOf(s) ==
  IF \E n \in 0..Len(PROBLEMS) : ToString(n) = s
  THEN CHOOSE n \in 0..Len(PROBLEMS) : ToString(n) = s
  ELSE -1

\* The count on the one line of the report that begins with a label.
LabelledCount(label) ==
  LET js == {j \in 1..Len(TxtLines) : Len(TxtLines[j]) = 3 /\ TxtLines[j][1] = label}
  IN  IF Cardinality(js) = 1 THEN CountOf(TxtLines[CHOOSE j \in js : TRUE][2]) ELSE -1

\* C19: in the summary of the text report the deployment split is complete:
\* the Kubernetes count and the Docker count add up to Total Problems, and the
\* Docker count is the number of blocks of the listing marked [Docker].
C19_DeploymentSplit ==
  TxtWritten =>
    /\ LabelledCount("Total Problems: ") >= 0
    /\ LabelledCount("  - Kubernetes: ") >= 0
    /\ LabelledCount("  - Docker: ") >= 0
    /\ LabelledCount("  - Kubernetes: ") + LabelledCount("  - Docker: ")
         = LabelledCount("Total Problems: ")
    /\ LabelledCount("  - Docker: ")
         = Cardinality({j \in AllBlockHeads : TxtLines[j][3] = "[Docker]"})

\* save_to_txt has run over the whole registry, which has records of both
\* deployments.
C19_Witness ==
  /\ TxtWritten
  /\ Len(PROBLEMS) = Len(PROBLEMS_at_import)
  /\ LabelledCount("Total Problems: ") = Len(PROBLEMS_at_import)
  /\ LabelledCount("  - Docker: ") > 0
  /\ LabelledCount("  - Kubernetes: ") > LabelledCount("  - Docker: ")

\* The line of the report that is a given heading (0 when there is none), and
\* the tally lines between two headings as [key, value] pairs.
HeadingAt(text) ==
  LET js == {j \in 1..Len(TxtLines) : TxtLines[j] = <<text>>}
  IN  IF js = {} THEN 0 ELSE CHOOSE j \in js : \A i \in js : j <= i

IsTallyLine(w) == Len(w) = 5 /\ w[1] = "  - " /\ w[3] = ": " /\ w[5] = "\n"

TallyBetween(from, to) ==
  [k \in 1..(HeadingAt(to) - HeadingAt(from) - 1) |->
     LET w == TxtLines[HeadingAt(from) + k]
     IN  IF IsTallyLine(w) THEN [key |-> w[2], value |-> CountOf(w[4])]
         ELSE [key |-> "", value |-> -1]]

\* A tally is exact for a field: one line per value present in the list, the
\* values ascending, each with the number of records that have it, the counts
\* adding up to Total Problems.
TallyExact(tally, field) ==
  /\ \A k \in 1..Len(tally) : tally[k].value = Cardinality(Matching(field, tally[k].key))
  /\ {tally[k].key : k \in 1..Len(tally)} = {PROBLEMS[i][field] : i \in 1..Len(PROBLEMS)}
  /\ \A k \in 1..(Len(tally) - 1) : StrLess(tally[k].key, tally[k + 1].key)
  /\ SumCounts(tally) = LabelledCount("Total Problems: ")

\* C20: in the summary of the text report the By System Level list and the By
\* Fault Category list each have one line per distinct value present among the
\* records, N/A included, in ascending order, and the counts of each list add
\* up to Total Problems.
C20_LevelAndCategoryTallies ==
  TxtWritten =>
    /\ 0 < HeadingAt("\nBy System Level:\n")
    /\ HeadingAt("\nBy System Level:\n") < HeadingAt("\nBy Fault Category:\n")
    /\ HeadingAt("\nBy Fault Category:\n") < HeadingAt("\nBy Deployment:\n")
    /\ TallyExact(TallyBetween("\nBy System Level:\n", "\nBy Fault Category:\n"),
                  "system_level")
    /\ TallyExact(TallyBetween("\nBy Fault Category:\n", "\nBy Deployment:\n"),
                  "fault_category")

\* save_to_txt has run over the whole registry under a hash seed that yields
\* the values in descending order: N/A has a line in both lists, between
\* other values.
C20_Witness ==
  /\ TxtWritten
  /\ hashseed = 1
  /\ Len(PROBLEMS) = Len(PROBLEMS_at_import)
  /\ LET levels == TallyBetween("\nBy System Level:\n", "\nBy Fault Category:\n")
         cats   == TallyBetween("\nBy Fault Category:\n", "\nBy Deployment:\n")
     IN  /\ \E k \in 2..(Len(levels) - 1) : levels[k].key = "N/A" /\ levels[k].value > 0
         /\ \E k \in 2..(Len(cats) - 1) : cats[k].key = "N/A" /\ cats[k].value > 0

-----------------------------------------------------------------------------
\* The console summary against the files.

\* The first print that is a given heading (0 when there is none).
PrintAt(text) ==
  LET js == {j \in 1..Len(stdout) : stdout[j] = <<text>>}
  IN  IF js = {} THEN 0 ELSE CHOOSE j \in js : \A i \in js : j <= i

IsTallyPrint(w) == Len(w) = 4 /\ w[1] = "  - " /\ w[3] = ": "

\* The tally printed after the heading at line from: the prints of the shape
\* "  - key: count" that follow it without a break, as [key, value] pairs.
PrintedTallyAfter(from) ==
  LET others == {j \in (from + 1)..Len(stdout) : ~IsTallyPrint(stdout[j])}
      end    == IF others = {} THEN Len(stdout) + 1
                ELSE CHOOSE j \in others : \A i \in others : j <= i
  IN  [k \in 1..(end - from - 1) |->
         [key |-> stdout[from + k][2], value |-> CountOf(stdout[from + k][4])]]

PrintedTotal ==
  LET js == {j \in 1..Len(stdout) : Len(stdout[j]) = 3 /\ stdout[j][1] = "\nTotal: "}
  IN  IF Cardinality(js) = 1 THEN CountOf(stdout[CHOOSE j \in js : TRUE][2]) ELSE -1

CapitalizedKinds == <<"Detection", "Localization", "Analysis", "Mitigation">>

\* C21: the tally print_summary prints agrees with the files written over the
\* same records: its total, its counts by task and its counts by application
\* are total, by_task and by_app of problems.json, and its counts by fault
\* category are those of the By Fault Category list of problems.txt, the keys
\* in the same order.
C21_ConsoleAgreesWithFiles ==
  pc \in {"summary_printed", "done"} =>
    LET tasks == PrintedTallyAfter(PrintAt("By Task Type:"))
        apps  == PrintedTallyAfter(PrintAt("\nBy Application:"))
        cats  == PrintedTallyAfter(PrintAt("\nBy Fault Category:"))
    IN  /\ PrintAt("By Task Type:") > 0
        /\ PrintAt("\nBy Application:") > 0
        /\ PrintAt("\nBy Fault Category:") > 0
        /\ PrintedTotal = JsonDoc.summary.total
        /\ Len(tasks) = Len(JsonDoc.summary.by_task)
        /\ \A k \in 1..Len(tasks) :
             /\ tasks[k].key = CapitalizedKinds[k]
             /\ JsonDecode(JsonDoc.summary.by_task[k].key) = <<FourKinds[k]>>
             /\ tasks[k].value = JsonDoc.summary.by_task[k].value
        /\ Len(apps) = Len(JsonDoc.summary.by_app)
        /\ \A k \in 1..Len(apps) :
             /\ <<apps[k].key>> = JsonDecode(JsonDoc.summary.by_app[k].key)
             /\ apps[k].value = JsonDoc.summary.by_app[k].value
        /\ cats = TallyBetween("\nBy Fault Category:\n", "\nBy Deployment:\n")

\* main has printed the summary after the three exports, under a hash seed
\* that yields the keys in descending order; the tallies have several keys.
C21_Witness ==
  /\ pc = "summary_printed"
  /\ hashseed = 1
  /\ JsonWritten
  /\ files[TxtFileName].exists
  /\ PrintedTotal = Len(PROBLEMS_at_import)
  /\ Len(PrintedTallyAfter(PrintAt("\nBy Application:"))) > 2
  /\ Len(PrintedTallyAfter(PrintAt("\nBy Fault Category:"))) > 2

-----------------------------------------------------------------------------
\* The members of a list.
Members(list) == {list[k] : k \in 1..Len(list)}

\* The extra fields of the analysis entry of TASK_TYPES.
AnalysisDescriptor == Get(TASK_TYPES, "analysis")

\* C22: every record of the registry has a system_level that is one of the
\* analysis descriptor's system_levels (Hardware, Operating System,
\* Virtualization, Application) or N/A, and a fault_category that is one of
\* the descriptor's fault_types (Misconfiguration, Code Defect, Authentication
\* Issue, Network/Storage Issue, Operation Error, Dependency Problem) or N/A.
C22_ClassificationInEnumerations ==
  /\ AnalysisDescriptor.system_levels =
       <<"Hardware", "Operating System", "Virtualization", "Application">>
  /\ AnalysisDescriptor.fault_types =
       <<"Misconfiguration", "Code Defect", "Authentication Issue",
         "Network/Storage Issue", "Operation Error", "Dependency Problem">>
  /\ \A i \in 1..Len(PROBLEMS) :
       /\ PROBLEMS[i].system_level \in
            Members(AnalysisDescriptor.system_levels) \cup {"N/A"}
       /\ PROBLEMS[i].fault_category \in
            Members(AnalysisDescriptor.fault_types) \cup {"N/A"}

\* The registry after a whole run of main: it has records carrying the
\* sentinel, and records at three of the four levels and in all six categories.
C22_Witness ==
  /\ pc = "done"
  /\ Len(PROBLEMS) = Len(PROBLEMS_at_import)
  /\ Matching("system_level", "N/A") # {}
  /\ Matching("fault_category", "N/A") # {}
  /\ FieldSet(PROBLEMS, "system_level") \ {"N/A"} =
       {"Operating System", "Virtualization", "Application"}
  /\ FieldSet(PROBLEMS, "fault_category") \ {"N/A"} =
       Members(AnalysisDescriptor.fault_types)

-----------------------------------------------------------------------------
\* The shapes of an expected_solution text, read off its characters.
\* Boolean-ish text: Yes or No.
IsYesNoText(s) == s \in {"Yes", "No"}

\* List-shaped text: [ "name", "name", ... ] with at least one name.  The
\* names are returned in order; the empty sequence means the text is no list.
ListNames(s) ==
  LET p == Pieces(s)
      n == Len(p) \div 5
      special == {",", "\"", "\r", "\n", "\\"}
  IN  IF /\ Len(p) = 5 * n
         /\ n >= 1
         /\ p[1] = "["
         /\ p[5 * n] = "]"
         /\ \A k \in 1..n :
              /\ p[5 * k - 3] = "\""
              /\ p[5 * k - 2] \notin special
              /\ p[5 * k - 1] = "\""
         /\ \A k \in 1..(n - 1) : p[5 * k] = "," /\ p[5 * k + 1] = " "
      THEN [k \in 1..n |-> p[5 * k - 2]]
      ELSE <<>>

IsListText(s) == ListNames(s) # <<>>

\* Object-shaped text: { "key": "value", "key": "value" } with two members.
\* The members are returned as key/value pairs, in order; the empty sequence
\* means the text is no such object.
ObjectMembers(s) ==
  LET p == Pieces(s)
      special == {",", "\"", "\r", "\n", "\\"}
  IN  IF /\ Len(p) = 18
         /\ p[1] = "{"
         /\ p[18] = "}"
         /\ p[9] = "," /\ p[10] = " "
         /\ \A k \in {2, 4, 6, 8, 11, 13, 15, 17} : p[k] = "\""
         /\ p[5] = ": " /\ p[14] = ": "
         /\ \A k \in {3, 7, 12, 16} : p[k] \notin special
      THEN << [key |-> p[3], value |-> p[7]], [key |-> p[12], value |-> p[16]] >>
      ELSE <<>>

IsObjectText(s) == ObjectMembers(s) # <<>>

IsFreeText(s) == ~IsYesNoText(s) /\ ~IsListText(s) /\ ~IsObjectText(s)

\* C23: in the registry the shape of expected_solution is determined by task:
\* every detection record has Yes or No, every localization record a bracketed
\* list of service names, every analysis record an object with exactly the keys
\* system_level and fault_type, and only mitigation records carry free text.
C23_SolutionShapeByTask ==
  \A i \in 1..Len(PROBLEMS) :
    LET p == PROBLEMS[i] IN
      /\ p.task = "detection" => IsYesNoText(p.expected_solution)
      /\ p.task = "localization" => IsListText(p.expected_solution)
      /\ p.task = "analysis" =>
           /\ IsObjectText(p.expected_solution)
           /\ Len(ObjectMembers(p.expected_solution)) = 2
           /\ {m.key : m \in Members(ObjectMembers(p.expected_solution))} =
                {"system_level", "fault_type"}
      /\ IsFreeText(p.expected_solution) => p.task = "mitigation"

\* The registry after a whole run of main has records of all four shapes:
\* both detection answers, lists, objects, and free text on mitigation records.
C23_Witness ==
  /\ pc = "done"
  /\ Len(PROBLEMS) = Len(PROBLEMS_at_import)
  /\ \E i \in Matching("task", "detection") : PROBLEMS[i].expected_solution = "No"
  /\ \E i \in Matching("task", "detection") : PROBLEMS[i].expected_solution = "Yes"
  /\ \E i \in Matching("task", "localization") : IsListText(PROBLEMS[i].expected_solution)
  /\ \E i \in Matching("task", "analysis") : IsObjectText(PROBLEMS[i].expected_solution)
  /\ \A i \in Matching("task", "mitigation") : IsFreeText(PROBLEMS[i].expected_solution)
  /\ Matching("task", "mitigation") # {}

-----------------------------------------------------------------------------
\* The value an object-shaped text holds under a key.
MemberValue(s, key) ==
  (CHOOSE m \in Members(ObjectMembers(s)) : m.key = key).value

\* C29: for every analysis record of the registry, the system_level inside
\* expected_solution equals the record's system_level field, the fault_type
\* inside expected_solution equals the record's fault_category field, and
\* neither is the N/A sentinel.
C29_AnalysisAnswerMatchesRecord ==
  \A i \in Matching("task", "analysis") :
    LET p == PROBLEMS[i] IN
      /\ IsObjectText(p.expected_solution)
      /\ \E m \in Members(ObjectMembers(p.expected_solution)) :
           m.key = "system_level" /\ m.value = p.system_level /\ m.value # "N/A"
      /\ \E m \in Members(ObjectMembers(p.expected_solution)) :
           m.key = "fault_type" /\ m.value = p.fault_category /\ m.value # "N/A"

\* The registry after a whole run of main: its analysis records are answered
\* at two different levels and with several fault types.
C29_Witness ==
  /\ pc = "done"
  /\ Len(PROBLEMS) = Len(PROBLEMS_at_import)
  /\ Cardinality(Matching("task", "analysis")) > 2
  /\ \E i, j \in Matching("task", "analysis") :
       /\ MemberValue(PROBLEMS[i].expected_solution, "system_level") = "Application"
       /\ MemberValue(PROBLEMS[j].expected_solution, "system_level") = "Virtualization"
       /\ MemberValue(PROBLEMS[i].expected_solution, "fault_type") #
            MemberValue(PROBLEMS[j].expected_solution, "fault_type")

\* C30: a localization record's expected_solution is the one-element list
\* holding exactly its faulty_service; a detection record's expected_solution
\* is No exactly when its fault_type is noop, and then its faulty_service,
\* system_level and fault_category are all N/A; it is Yes otherwise.
C30_AnswerMatchesFault ==
  /\ \A i \in Matching("task", "localization") :
       ListNames(PROBLEMS[i].expected_solution) = <<PROBLEMS[i].faulty_service>>
  /\ \A i \in Matching("task", "detection") :
       LET p == PROBLEMS[i] IN
         /\ p.expected_solution = "No" <=> p.fault_type = "noop"
         /\ p.fault_type = "noop" =>
              /\ p.faulty_service = "N/A"
              /\ p.system_level = "N/A"
              /\ p.fault_category = "N/A"
         /\ p.fault_type # "noop" => p.expected_solution = "Yes"

\* The registry after a whole run of main: it has no-op detection records,
\* detection records of a real fault, and localization records.
C30_Witness ==
  /\ pc = "done"
  /\ Len(PROBLEMS) = Len(PROBLEMS_at_import)
  /\ \E i \in Matching("task", "detection") :
       PROBLEMS[i].fault_type = "noop" /\ PROBLEMS[i].expected_solution = "No"
  /\ \E i \in Matching("task", "detection") :
       PROBLEMS[i].fault_type # "noop" /\ PROBLEMS[i].expected_solution = "Yes"
  /\ \E i \in Matching("task", "localization") :
       PROBLEMS[i].faulty_service # "N/A"

-----------------------------------------------------------------------------
\* main has ended: with an I/O failure, or with the closing banner as the last
\* lines it printed.
MainEnded ==
  \/ pc = "failed"
  \/ /\ pc = "done"
     /\ Len(stdout) >= Len(Banner)
     /\ SubSeq(stdout, Len(stdout) - Len(Banner) + 1, Len(stdout)) = Banner

\* C24: every run of main terminates: once main is called, each export either
\* completes or the run ends with an I/O failure, so main eventually reaches
\* the state where the closing banner has been printed or a failed state.
C24_MainTerminates == (pc = "main") ~> MainEnded

\* A second run that has ended with an I/O failure, after a first run that
\* ended with the closing banner: both ways of ending have happened.
C24_Witness ==
  /\ run = 2
  /\ lastrun.done
  /\ pc = "failed"
  /\ MainEnded

-----------------------------------------------------------------------------
\* The positions of main from which it calls an exporter or print_summary.
CallSites == {"main", "json_saved", "csv_saved", "txt_saved"}

\* C26: the defaulting loop has been completed for every record of the
\* registry before any exporter reads a record: in every run, whenever main is
\* about to call save_to_json, save_to_csv, save_to_txt or print_summary, the
\* loop is over and no record of PROBLEMS lacks a deployment field.
C26_DefaultedBeforeAnyExport ==
  pc \in CallSites =>
    /\ idx > Len(PROBLEMS)
    /\ \A i \in 1..Len(PROBLEMS) : "deployment" \in DOMAIN PROBLEMS[i]

\* main is about to call save_to_txt, which reads p["deployment"], on a
\* registry in which most records were declared without a deployment.
C26_Witness ==
  /\ pc = "csv_saved"
  /\ Len(PROBLEMS) = Len(PROBLEMS_at_import)
  /\ \E i \in 1..Len(PROBLEMS) :
       /\ "deployment" \notin DOMAIN PROBLEMS_at_import[i]
       /\ "deployment" \in DOMAIN PROBLEMS[i]

-----------------------------------------------------------------------------
\* The By Task Type lines of the summary of the text report.
TaskTally == TallyBetween("By Task Type:\n", "\nBy Application:\n")

\* C28: when no record of the list has a given task kind, save_to_txt writes
\* no section for that kind in the detailed listing (no header, and every
\* block of the listing lies under the header of another kind), while the By
\* Task Type list of the summary still has a line for that kind, with count 0.
C28_EmptyKindHasLineButNoSection ==
  TxtWritten =>
    \A k \in 1..Len(FourKinds) :
      RecordsOfKind(FourKinds[k]) = <<>> =>
        /\ SectionHeaders(FourKinds[k]) = {}
        /\ \A j \in AllBlockHeads :
             \E k2 \in 1..Len(FourKinds) :
               /\ k2 # k
               /\ \E h \in SectionHeaders(FourKinds[k2]) : j \in BlocksUnder(h)
        /\ HeadingAt("By Task Type:\n") > 0
        /\ Len(TaskTally) = Len(FourKinds)
        /\ TaskTally[k] = [key |-> CapitalizedKinds[k], value |-> 0]

\* save_to_txt has run over a list of two records of two kinds: two kinds
\* have a section with a block, the other two have none and a line with 0.
C28_Witness ==
  /\ TxtWritten
  /\ Len(PROBLEMS) = 2
  /\ Cardinality({k \in 1..Len(FourKinds) : RecordsOfKind(FourKinds[k]) = <<>>}) = 2
  /\ Cardinality({k \in 1..Len(FourKinds) : SectionHeaders(FourKinds[k]) # {}}) = 2
  /\ Cardinality(AllBlockHeads) = 2
  /\ Cardinality({k \in 1..Len(TaskTally) : TaskTally[k].value = 0}) = 2

-----------------------------------------------------------------------------
\* The records of the list whose task is none of the four kinds.
OfNoKind == {i \in 1..Len(PROBLEMS) : PROBLEMS[i].task \notin TaskKinds}

\* The last print is the message of a completed export to the file.
LastPrinted(filename) == stdout # <<>> /\ stdout[Len(stdout)] = Saved(filename)

\* C27: the exporters do not validate task.  Given a list with a record whose
\* task is outside the four kinds, save_to_json and save_to_txt complete
\* without error; the record is counted in total and in Total Problems, but in
\* no by_task count and no By Task Type count, and it is listed in no task
\* section; the by_task counts then add up to less than total.
C27_UnknownTaskNotValidated ==
  (pc = "caller" /\ OfNoKind # {}) =>
    /\ LastPrinted(JsonFileName) =>
         /\ JsonWritten
         /\ Len(JsonDoc.problems) = Len(PROBLEMS)
         /\ JsonDoc.summary.total = Len(PROBLEMS)
         /\ Len(JsonDoc.summary.by_task) = Len(FourKinds)
         /\ \A k \in 1..Len(FourKinds) :
              /\ JsonDecode(JsonDoc.summary.by_task[k].key) = <<FourKinds[k]>>
              /\ JsonDoc.summary.by_task[k].value = Len(RecordsOfKind(FourKinds[k]))
         /\ SumCounts(JsonDoc.summary.by_task) = Len(PROBLEMS) - Cardinality(OfNoKind)
         /\ SumCounts(JsonDoc.summary.by_task) < JsonDoc.summary.total
    /\ LastPrinted(TxtFileName) =>
         /\ files[TxtFileName].exists
         /\ TxtLines[Len(TxtLines)][1] = "  - Docker: "
         /\ LabelledCount("Total Problems: ") = Len(PROBLEMS)
         /\ Len(TaskTally) = Len(FourKinds)
         /\ \A k \in 1..Len(FourKinds) :
              TaskTally[k] = [key |-> CapitalizedKinds[k],
                              value |-> Len(RecordsOfKind(FourKinds[k]))]
         /\ SumCounts(TaskTally) < LabelledCount("Total Problems: ")
         /\ Cardinality(AllBlockHeads) = Len(PROBLEMS) - Cardinality(OfNoKind)
         /\ \A j \in AllBlockHeads : \A i \in OfNoKind : TxtLines[j][5] # PROBLEMS[i].id
         /\ \A j \in 1..Len(TxtLines) :
              IsSectionHeader(TxtLines[j]) => TxtLines[j][1] \in {upper(t) : t \in TaskKinds}

\* Both exports have completed over a list of a record of no kind and a
\* record of one of the four kinds: the files exist, total is 2 and the by_task counts add up
\* to 1, and the listing has one block.
C27_Witness ==
  /\ pc = "caller"
  /\ Len(PROBLEMS) = 2
  /\ Cardinality(OfNoKind) = 1
  /\ JsonWritten
  /\ files[TxtFileName].exists
  /\ LastPrinted(TxtFileName)
  /\ JsonDoc.summary.total = 2
  /\ SumCounts(JsonDoc.summary.by_task) = 1
  /\ Cardinality(AllBlockHeads) = 1
  /\ LabelledCount("Total Problems: ") = 2

-----------------------------------------------------------------------------
\* The columns a record lacks, and the records of the list that lack one.
MissingColumns(p) == {Columns[c] : c \in 1..Len(Columns)} \ DOMAIN p

Incomplete == {i \in 1..Len(PROBLEMS) : MissingColumns(PROBLEMS[i]) # {}}

\* The data row of problems.csv for the i-th record (the empty row when the
\* file has none).
CsvRowOf(i) ==
  LET rows == CsvRead(files[CsvFileName])
  IN  IF i + 1 <= Len(rows) THEN rows[i + 1] ELSE <<>>

\* The row holds an empty field in every column the record lacks.
BlankWhereMissing(i) ==
  /\ Len(CsvRowOf(i)) = Len(Columns)
  /\ \A c \in 1..Len(Columns) :
       Columns[c] \in MissingColumns(PROBLEMS[i]) => CsvRowOf(i)[c] = <<>>

\* C25 as stated: given a record missing one of the twelve columns,
\* save_to_csv reports an error (it does not return and print its message)
\* and writes no data row for the record with the missing column left blank.
C25_MissingColumnRejected ==
  (pc = "caller" /\ ncalls > 0 /\ Incomplete # {}) =>
    /\ ~LastPrinted(CsvFileName)
    /\ \A i \in Incomplete : ~BlankWhereMissing(i)

\* C25, amended: a record missing one of the twelve columns is not detected
\* by save_to_csv.  Given such a record in a list whose records have no field
\* outside the twelve columns, save_to_csv reports no error: it returns and
\* prints its message, and problems.csv holds a data row for every record,
\* with the record's values in the columns it has and an empty field in each
\* column it lacks.
C25_MissingColumnLeftBlank ==
  (/\ pc = "caller" /\ ncalls > 0 /\ Incomplete # {}
   /\ \A i \in 1..Len(PROBLEMS) :
        DOMAIN PROBLEMS[i] \subseteq {Columns[c] : c \in 1..Len(Columns)}) =>
    /\ LastPrinted(CsvFileName)
    /\ Len(stdout) = ncalls
    /\ Len(CsvRead(files[CsvFileName])) = Len(PROBLEMS) + 1
    /\ \A i \in 1..Len(PROBLEMS) :
         CsvRowOf(i) =
           [c \in 1..Len(Columns) |->
              IF Columns[c] \in DOMAIN PROBLEMS[i]
              THEN Pieces(PROBLEMS[i][Columns[c]])
              ELSE <<>>]

\* save_to_csv has returned over a list of a record without workload and a
\* record without deployment: both have a row, blank in that column.
C25_Witness ==
  /\ pc = "caller"
  /\ ncalls > 0
  /\ Len(PROBLEMS) = 2
  /\ MissingColumns(PROBLEMS[1]) = {"workload"}
  /\ MissingColumns(PROBLEMS[2]) = {"deployment"}
  /\ LastPrinted(CsvFileName)
  /\ BlankWhereMissing(1)
  /\ BlankWhereMissing(2)
  /\ CsvRowOf(1)[1] = <<PROBLEMS[1].id>>
=============================================================================
